---- MODULE Spec2Model ----
(***************************************************************************)
(* Model of the CityLayers question-answering pipeline:                    *)
(*   - Neo4jAgent.process (agents/neo4j_agent.py): Cypher generation,      *)
(*     safety validation, execution, answer synthesis, result widening;    *)
(*   - chat_endpoint (app.py): the stages that follow process;             *)
(*   - _flatten_neo4j_records (app.py): aggregation of raw rows by place.  *)
(* Texts are sequences of one-character strings so that the regular        *)
(* expressions of the code (word boundaries, LIMIT stripping, clause       *)
(* injection) are computed character by character.                         *)
(***************************************************************************)
EXTENDS Integers, Sequences, FiniteSets, TLC

(***************************************************************************)
(* Characters and Python's str / re primitives                             *)
(***************************************************************************)
LowerLetters ==
    <<"a","b","c","d","e","f","g","h","i","j","k","l","m","n","o","p","q","r","s","t","u","v","w","x","y","z">>
UpperLetters ==
    <<"A","B","C","D","E","F","G","H","I","J","K","L","M","N","O","P","Q","R","S","T","U","V","W","X","Y","Z">>
Digits ==
    <<"0","1","2","3","4","5","6","7","8","9">>

Range(s) == {s[i] : i \in 1..Len(s)}

IsLetter(c) == c \in Range(LowerLetters) \cup Range(UpperLetters)
IsDigit(c) == c \in Range(Digits)
\* \w of Python's re: letters, digits and the underscore
IsWordChar(c) == IsLetter(c) \/ IsDigit(c) \/ c = "_"
\* \s of Python's re
IsSpace(c) == c \in {" ", "\n", "\t"}

LetterIndex(c, letters) == CHOOSE i \in 1..Len(letters) : letters[i] = c

\* str.upper() and str.lower(), one character at a time
UpperChar(c) ==
    IF c \in Range(LowerLetters) THEN UpperLetters[LetterIndex(c, LowerLetters)] ELSE c
LowerChar(c) ==
    IF c \in Range(UpperLetters) THEN LowerLetters[LetterIndex(c, UpperLetters)] ELSE c
Upper(s) == [i \in 1..Len(s) |-> UpperChar(s[i])]
Lower(s) == [i \in 1..Len(s) |-> LowerChar(s[i])]

\* the literal w occurs in s starting at index i
MatchesAt(s, w, i) ==
    /\ i >= 1
    /\ i + Len(w) - 1 <= Len(s)
    /\ \A k \in 1..Len(w) : s[i + k - 1] = w[k]

\* the same under re.IGNORECASE
MatchesAtIgnoreCase(s, w, i) ==
    /\ i >= 1
    /\ i + Len(w) - 1 <= Len(s)
    /\ \A k \in 1..Len(w) : UpperChar(s[i + k - 1]) = UpperChar(w[k])

\* "w in s" of Python
Contains(s, w) == \E i \in 1..(Len(s) + 1) : MatchesAt(s, w, i)

\* \b of Python's re at the gap before index i (i = Len(s) + 1 is the end)
WordBoundary(s, i) ==
    (i > 1 /\ i - 1 <= Len(s) /\ IsWordChar(s[i - 1]))
        # (i >= 1 /\ i <= Len(s) /\ IsWordChar(s[i]))

\* index of the first character at or after i that is not white space
RECURSIVE SkipSpaces(_, _)
SkipSpaces(s, i) ==
    IF i <= Len(s) /\ IsSpace(s[i]) THEN SkipSpaces(s, i + 1) ELSE i

\* index of the first character at or after i that is not a digit
RECURSIVE SkipDigits(_, _)
SkipDigits(s, i) ==
    IF i <= Len(s) /\ IsDigit(s[i]) THEN SkipDigits(s, i + 1) ELSE i

\* re.search(r'\bW\b', s) for a literal word W
SearchWord(s, w) ==
    \E i \in 1..Len(s) :
        /\ MatchesAt(s, w, i)
        /\ WordBoundary(s, i)
        /\ WordBoundary(s, i + Len(w))

\* re.search(r'\bHEAD\s+TAIL\b', s) for literals HEAD and TAIL
SearchCall(s, head, tail) ==
    \E i \in 1..Len(s) :
        /\ WordBoundary(s, i)
        /\ MatchesAt(s, head, i)
        /\ SkipSpaces(s, i + Len(head)) > i + Len(head)
        /\ \E j \in (i + Len(head) + 1)..SkipSpaces(s, i + Len(head)) :
              /\ MatchesAt(s, tail, j)
              /\ WordBoundary(s, j + Len(tail))

\* str.strip()
RECURSIVE LastNonSpace(_, _)
LastNonSpace(s, i) ==
    IF i >= 1 /\ IsSpace(s[i]) THEN LastNonSpace(s, i - 1) ELSE i
Strip(s) ==
    LET a == SkipSpaces(s, 1)
        b == LastNonSpace(s, Len(s))
    IN  IF a > b THEN <<>> ELSE SubSeq(s, a, b)

\* re.sub(W, '', s) for a literal W, with or without re.IGNORECASE
RECURSIVE RemoveLiteral(_, _, _, _)
RemoveLiteral(s, w, ignorecase, i) ==
    IF i > Len(s) THEN <<>>
    ELSE IF (IF ignorecase THEN MatchesAtIgnoreCase(s, w, i) ELSE MatchesAt(s, w, i))
         THEN RemoveLiteral(s, w, ignorecase, i + Len(w))
         ELSE <<s[i]>> \o RemoveLiteral(s, w, ignorecase, i + 1)

(***************************************************************************)
(* Neo4jAgent._validate_cypher_query                                       *)
(***************************************************************************)
W_DELETE == <<"D","E","L","E","T","E">>
W_DETACH == <<"D","E","T","A","C","H">>
W_DROP == <<"D","R","O","P">>
W_CREATE == <<"C","R","E","A","T","E">>
W_MERGE == <<"M","E","R","G","E">>
W_SET == <<"S","E","T">>
W_REMOVE == <<"R","E","M","O","V","E">>
W_CALL == <<"C","A","L","L">>
W_apoc_periodic_iterate ==
    <<"a","p","o","c",".","p","e","r","i","o","d","i","c",".","i","t","e","r","a","t","e">>

\* the list forbidden_patterns, in the order of the source; "call" is
\* r'\bCALL\s+apoc\.periodic\.iterate\b', written in lower case in the source
forbidden_patterns ==
    << [kind |-> "word", word |-> W_DELETE],
       [kind |-> "word", word |-> W_DETACH],
       [kind |-> "word", word |-> W_DROP],
       [kind |-> "word", word |-> W_CREATE],
       [kind |-> "word", word |-> W_MERGE],
       [kind |-> "word", word |-> W_SET],
       [kind |-> "word", word |-> W_REMOVE],
       [kind |-> "call", head |-> W_CALL, tail |-> W_apoc_periodic_iterate] >>

\* re.search(pattern, upper_query): the pattern is applied as written, with no
\* re.IGNORECASE, to the upper-cased query
PatternFound(pattern, upper_query) ==
    IF pattern.kind = "word"
    THEN SearchWord(upper_query, pattern.word)
    ELSE SearchCall(upper_query, pattern.head, pattern.tail)

\* 0 when the query passes, else the index of the first pattern that raises
validate_cypher_query(query) ==
    LET upper_query == Upper(query)
        hits == {k \in 1..Len(forbidden_patterns) :
                    PatternFound(forbidden_patterns[k], upper_query)}
    IN  IF hits = {} THEN 0 ELSE CHOOSE k \in hits : \A h \in hits : k <= h

(***************************************************************************)
(* Neo4jAgent._fetch_full_results: the text of the widening re-run         *)
(***************************************************************************)
W_LIMIT == <<"L","I","M","I","T">>
W_WHERE == <<"W","H","E","R","E">>
W_RETURN == <<"R","E","T","U","R","N">>
W_c_category_id ==
    <<"c",".","c","a","t","e","g","o","r","y","_","i","d">>
W_exists_category ==
    <<"e","x","i","s","t","s","(","(","p",")","-","[",":","B","E","L","O","N","G","S","_","T","O","]","-",">","(","c",":","C","a","t","e","g","o","r","y",")",")"," ","A","N","D"," ","c",".","c","a","t","e","g","o","r","y","_","i","d"," ","="," ">>
W_AND == <<" ","A","N","D"," ">>
W_WHERE_sp == <<" ","W","H","E","R","E"," ">>

\* end (exclusive) of a match of r'\s+LIMIT\s+\d+' (re.IGNORECASE) that starts
\* at index i, or 0 when there is none
MatchLimitAt(s, i) ==
    LET j == SkipSpaces(s, i)
        k == j + Len(W_LIMIT)
        m == SkipSpaces(s, k)
        e == SkipDigits(s, m)
    IN  IF /\ i <= Len(s)
           /\ j > i
           /\ MatchesAtIgnoreCase(s, W_LIMIT, j)
           /\ m > k
           /\ e > m
        THEN e ELSE 0

\* re.sub(r'\s+LIMIT\s+\d+', '', s, flags=re.IGNORECASE)
RECURSIVE StripLimitFrom(_, _)
StripLimitFrom(s, i) ==
    IF i > Len(s) THEN <<>>
    ELSE IF MatchLimitAt(s, i) > 0
         THEN StripLimitFrom(s, MatchLimitAt(s, i))
         ELSE <<s[i]>> \o StripLimitFrom(s, i + 1)
StripLimit(s) == StripLimitFrom(s, 1)

\* f"{category_filter}" for the values a caller passes
FormatFilter(category_filter) ==
    CASE category_filter = "1" -> <<"1">>
      [] category_filter = "all" -> <<"a", "l", "l">>
      [] OTHER -> <<"N", "o", "n", "e">>

\* the category condition the source formats into the replacement text
CategoryCondition(category_filter) ==
    W_exists_category \o FormatFilter(category_filter)

\* re.sub(r'(WHERE\s+)', r'\1<condition> AND ', s, count=1, flags=re.IGNORECASE)
InjectAfterWhere(s, category_filter) ==
    LET starts == {i \in 1..Len(s) :
                      /\ MatchesAtIgnoreCase(s, W_WHERE, i)
                      /\ SkipSpaces(s, i + Len(W_WHERE)) > i + Len(W_WHERE)}
    IN  IF starts = {} THEN s
        ELSE LET i == CHOOSE x \in starts : \A y \in starts : x <= y
                 e == SkipSpaces(s, i + Len(W_WHERE))
             IN  SubSeq(s, 1, e - 1) \o CategoryCondition(category_filter)
                    \o W_AND \o SubSeq(s, e, Len(s))

\* re.sub(r'(\s+RETURN\s+)', r' WHERE <condition>\1', s, count=1, flags=re.IGNORECASE)
InjectBeforeReturn(s, category_filter) ==
    LET starts == {i \in 1..Len(s) :
                      LET j == SkipSpaces(s, i)
                      IN  /\ j > i
                          /\ MatchesAtIgnoreCase(s, W_RETURN, j)
                          /\ SkipSpaces(s, j + Len(W_RETURN)) > j + Len(W_RETURN)}
    IN  IF starts = {} THEN s
        ELSE LET i == CHOOSE x \in starts : \A y \in starts : x <= y
             IN  SubSeq(s, 1, i - 1) \o W_WHERE_sp \o CategoryCondition(category_filter)
                    \o SubSeq(s, i, Len(s))

\* the query text of the re-run, lines 953-975
full_query(cypher_query, category_filter) ==
    LET stripped == StripLimit(cypher_query)
    IN  IF /\ category_filter # "None"
           /\ category_filter # "all"
           /\ ~Contains(stripped, W_c_category_id)
        THEN IF Contains(Upper(stripped), W_WHERE)
             THEN InjectAfterWhere(stripped, category_filter)
             ELSE InjectBeforeReturn(stripped, category_filter)
        ELSE stripped

\* the threshold in "len(context_records) >= 200"
WideningThreshold == 200

\* a variant of the re-run condition that needs more rows than the threshold
ShouldWidenAbove(context_records, cypher_query) ==
    Len(cypher_query) > 0 /\ context_records.n > WideningThreshold

\* the guard of the re-run: "if cypher_query and len(context_records) >= 200"
ShouldWiden(context_records, cypher_query) ==
    Len(cypher_query) > 0 /\ context_records.n >= WideningThreshold

(***************************************************************************)
(* Query texts the language model may return                               *)
(***************************************************************************)
StatementHeads ==
    { <<"M","A","T","C","H"," ","(","n",")"," ">>,
      <<"R","E","T","U","R","N"," ","1",";"," ">> }

\* the backquote character, written out because the lexer reserves it
Backquote == "backquote"
W_fence == <<Backquote, Backquote, Backquote>>
W_fence_cypher == W_fence \o <<"c","y","p","h","e","r">>

\* texts with no forbidden construct
SafeTexts ==
    { <<>>,
      \* MATCH (p) RETURN p
      <<"M","A","T","C","H"," ","(","p",")"," ","R","E","T","U","R","N"," ","p">>,
      \* MATCH (p) RETURN p LIMIT 10
      <<"M","A","T","C","H"," ","(","p",")"," ","R","E","T","U","R","N"," ","p"," ","L","I","M","I","T"," ","1","0">>,
      \* MATCH (p) WHERE p.x > 1 RETURN p limit 5
      <<"M","A","T","C","H"," ","(","p",")"," ","W","H","E","R","E"," ","p",".","x"," ",">"," ","1"," ","R","E","T","U","R","N"," ","p"," ","l","i","m","i","t"," ","5">>,
      \* MATCH (p) WITH p LIMIT 5 RETURN p\nLIMIT 10
      <<"M","A","T","C","H"," ","(","p",")"," ","W","I","T","H"," ","p"," ","L","I","M","I","T"," ","5"," ","R","E","T","U","R","N"," ","p","\n","L","I","M","I","T"," ","1","0">>,
      \* MATCH (c) WHERE c.category_id = 1 RETURN c LIMIT 10
      <<"M","A","T","C","H"," ","(","c",")"," ","W","H","E","R","E"," ","c",".","c","a","t","e","g","o","r","y","_","i","d"," ","="," ","1"," ","R","E","T","U","R","N"," ","c"," ","L","I","M","I","T"," ","1","0">>,
      \* RETURN p.created_at
      <<"R","E","T","U","R","N"," ","p",".","c","r","e","a","t","e","d","_","a","t">>,
      \* MATCH (p) WHERE p.x <> 'de LIMIT 1lete' RETURN p
      <<"M","A","T","C","H"," ","(","p",")"," ","W","H","E","R","E"," ","p",".","x"," ","<",">"," ","'","d","e"," ","L","I","M","I","T"," ","1","l","e","t","e","'"," ","R","E","T","U","R","N"," ","p">>,
      \* RETURN p.dataset, p.OFFSET
      <<"R","E","T","U","R","N"," ","p",".","d","a","t","a","s","e","t",","," ","p",".","O","F","F","S","E","T">> }

\* the bulk-iteration procedure call, as the model would write it
ApocTexts ==
    {
      \* CALL apoc.periodic.iterate(a, b)
      <<"C","A","L","L"," ","a","p","o","c",".","p","e","r","i","o","d","i","c",".","i","t","e","r","a","t","e","(","a",","," ","b",")">>,
      \* call  APOC.PERIODIC.ITERATE(a, b)
      <<"c","a","l","l"," "," ","A","P","O","C",".","P","E","R","I","O","D","I","C",".","I","T","E","R","A","T","E","(","a",","," ","b",")">> }

\* the seven mutation keywords in upper and in lower case, in the first
\* statement and in a statement that follows another
KeywordSpellings ==
    LET words == {W_DELETE, W_DETACH, W_DROP, W_CREATE, W_MERGE, W_SET, W_REMOVE}
    IN  words \cup {Lower(w) : w \in words}
MutationTexts ==
    { pre \o w \o post : pre \in StatementHeads,
                         w \in KeywordSpellings,
                         post \in {<<>>, <<" ","n">>} }

QueryTexts == SafeTexts \cup ApocTexts \cup MutationTexts

(***************************************************************************)
(* Normalisation of the model's reply, Neo4jAgent.process lines 493-526    *)
(***************************************************************************)
\* " ".join(texts)
RECURSIVE JoinWithSpace(_)
JoinWithSpace(texts) ==
    IF Len(texts) = 0 THEN <<>>
    ELSE IF Len(texts) = 1 THEN texts[1]
    ELSE texts[1] \o <<" ">> \o JoinWithSpace(Tail(texts))

\* str() of the mapping {'type': 'text'}
W_repr_type_text == <<"{","'","t","y","p","e","'",":"," ","'","t","e","x","t","'","}">>

\* a variant that keeps a mapping as its str()
ContentToStringOfMapping(content) ==
    CASE content.kind = "str" -> content.text
      [] content.kind = "dict" -> W_repr_type_text
      [] content.kind = "list" ->
            JoinWithSpace([i \in 1..Len(content.blocks) |-> content.blocks[i].text])

\* llm_response.content reduced to a string, lines 493-511: a plain string, a
\* mapping with or without a 'text' entry, or a list of mappings with a
\* 'text' entry
ContentToString(content) ==
    CASE content.kind = "str" -> content.text
      [] content.kind = "dict" ->
            IF "text" \in DOMAIN content THEN content.text
            ELSE W_repr_type_text
      [] content.kind = "list" ->
            JoinWithSpace([i \in 1..Len(content.blocks) |-> content.blocks[i].text])

W_brace == <<"{">>
W_quoted_text == <<"\"","t","e","x","t","\"">>
W_json_open == <<"{","\"","t","e","x","t","\"",":"," ","\"">>
W_json_close == <<"\"","}">>

\* lines 514-523: a string that starts with a brace and holds "text" is
\* parsed as JSON and replaced by its 'text' entry; a string that does not
\* parse is kept.  json.loads is modelled on the object with the one entry
\* "text" whose string has no quote, backslash or line break, with or without
\* white space behind it.
UnwrapJsonText(s) ==
    LET t == Strip(s)
        body == SubSeq(t, Len(W_json_open) + 1, Len(t) - Len(W_json_close))
    IN  IF /\ MatchesAt(s, W_brace, 1)
           /\ Contains(s, W_quoted_text)
           /\ MatchesAt(t, W_json_open, 1)
           /\ Len(t) >= Len(W_json_open) + Len(W_json_close)
           /\ MatchesAt(t, W_json_close, Len(t) - Len(W_json_close) + 1)
           /\ \A i \in 1..Len(body) : body[i] \notin {"\"", "\\", "\n"}
        THEN body
        ELSE s

\* re.sub of the fence followed by 'cypher' (re.IGNORECASE), re.sub of the
\* bare fence, then strip()
CleanCypher(s) ==
    Strip(RemoveLiteral(RemoveLiteral(s, W_fence_cypher, TRUE, 1), W_fence, FALSE, 1))

NormalizeGeneratedCypher(content) ==
    CleanCypher(UnwrapJsonText(ContentToString(content)))

\* the reply wrapped in a Markdown code fence
Fenced(text) == W_fence_cypher \o <<"\n">> \o text \o <<"\n">> \o W_fence

\* the replies the model may give for one query text
CypherContents(text) ==
    LET bodies == {text, Fenced(text)}
    IN  {[kind |-> "str", text |-> b] : b \in bodies}
        \cup {[kind |-> "dict", text |-> b] : b \in bodies}
        \cup {[kind |-> "list", blocks |-> <<[kind |-> "dict", text |-> b]>>] : b \in bodies}

(***************************************************************************)
(* Questions, Neo4jAgent._is_regional_query lines 1101-1105                *)
(***************************************************************************)
\* a blank message, "Parks in this area" and "Quiet places"
Questions ==
    { <<" "," ">>,
      <<"P","a","r","k","s"," ","i","n"," ","t","h","i","s"," ","a","r","e","a">>,
      <<"Q","u","i","e","t"," ","p","l","a","c","e","s">> }

regional_keywords ==
    { <<"r","e","g","i","o","n">>, <<"a","r","e","a">>, <<"n","o","r","t","h">>,
      <<"s","o","u","t","h">>, <<"e","a","s","t">>, <<"w","e","s","t">>,
      <<"b","o","u","n","d">>, <<"r","e","c","t","a","n","g","l","e">>,
      <<"b","o","x">>, <<"z","o","n","e">>,
      <<"i","n"," ","t","h","e"," ","r","e","g","i","o","n">> }

\* any(keyword in query.lower() for keyword in [...])
is_regional_query(query) ==
    \E keyword \in regional_keywords : Contains(Lower(query), keyword)

(***************************************************************************)
(* Rows of the graph service.  A result list is kept as its length and the *)
(* execution that produced it.                                             *)
(***************************************************************************)
NoRecords == [n |-> 0, batch |-> "none"]
FirstCounts == {0, 12, 199, 200, 250}
RerunCounts == {0, 250, 312}

\* the values category_filter takes: None, a category id, the 'all' choice
CategoryFilters == {"None", "1", "all"}

\* int(category_filter) raises ValueError unless the text is a number
IntRaises(category_filter) == category_filter \notin {"1"}

\* _prepare_context_summary raises on line 1075 exactly when there are
\* records, the filter is truthy and int() rejects it
prepare_context_summary_raises(records, category_filter) ==
    /\ records.n > 0
    /\ category_filter # "None"
    /\ IntRaises(category_filter)

(***************************************************************************)
(* Answers.  A reply of the model is kept by the features the code tests.  *)
(***************************************************************************)
AnswerContents ==
    { [kind |-> "model", dont_know |-> FALSE, mentions_map |-> FALSE,
       mentions_total |-> FALSE, unwanted |-> FALSE],
      [kind |-> "model", dont_know |-> FALSE, mentions_map |-> TRUE,
       mentions_total |-> TRUE, unwanted |-> TRUE],
      [kind |-> "model", dont_know |-> TRUE, mentions_map |-> FALSE,
       mentions_total |-> FALSE, unwanted |-> FALSE] }

\* removal of the unwanted phrases and of the doubled spaces, lines 591-606
CleanAnswer(answer) == [answer EXCEPT !.unwanted = FALSE]

PreviewCount == 10

\* _format_results: the fallback table, or the fixed text for no records
format_results(context) ==
    IF context.n = 0 THEN [kind |-> "no_results"]
    ELSE [kind |-> "table", total |-> context.n,
          shown |-> IF context.n < PreviewCount THEN context.n ELSE PreviewCount]

\* "map" in answer.lower()
MentionsMap(answer) ==
    IF answer.kind = "model" THEN answer.mentions_map ELSE FALSE

\* str(len(all_records)) in answer
MentionsTotal(answer) ==
    CASE answer.kind = "model" -> answer.mentions_total
      [] answer.kind = "table" -> TRUE
      [] OTHER -> FALSE

RegionalNoticeMin == 10
LargeResultMin == 50

\* lines 623-636: the fallback for "don't know", then the two notices
final_answer(content, all_records, query) ==
    LET cleaned == CleanAnswer(content)
        base == IF cleaned.dont_know THEN format_results(all_records) ELSE cleaned
        regional == is_regional_query(query)
    IN  [ text |-> base,
          map_notice |-> regional /\ all_records.n > RegionalNoticeMin
                           /\ ~MentionsMap(base),
          total_notice |-> all_records.n > LargeResultMin /\ ~regional
                           /\ ~MentionsTotal(base),
          online |-> FALSE ]

EmptyAnswer ==
    [text |-> [kind |-> "empty"], map_notice |-> FALSE, total_notice |-> FALSE,
     online |-> FALSE]

(***************************************************************************)
(* Results of Neo4jAgent.process, lines 638-650                            *)
(***************************************************************************)
None == [none |-> TRUE]

\* variants of the except branch: one that hands an answer back with the
\* failure, one that keeps rows in it
process_failure_with_answer(error) ==
    [ok |-> FALSE, error |-> error, context_records |-> NoRecords,
     answer |-> EmptyAnswer]
process_failure_keeping_rows(error) ==
    [ok |-> FALSE, error |-> error, context_records |-> [n |-> 1, batch |-> "first"]]

\* the except branch: str(e) as the error, no rows, no answer
process_failure(error) ==
    [ok |-> FALSE, error |-> error, context_records |-> NoRecords]

process_success(answer, all_records, cypher, first_records) ==
    [ok |-> TRUE, answer |-> answer, context_records |-> all_records,
     intermediate_steps |-> <<[query |-> cypher, context |-> first_records]>>]

\* str(e) of the exceptions the request can meet
DestructiveError(k) == [kind |-> "destructive", pattern |-> k]
GraphError == [kind |-> "graph", pattern |-> 0]
ModelError == [kind |-> "model", pattern |-> 0]
IntError == [kind |-> "invalid_literal", pattern |-> 0]

\* one call of graph.query: the text passed and what the service did
GraphRaised(text) == [query |-> text, outcome |-> "raised", n |-> 0]
GraphRows(text, n) == [query |-> text, outcome |-> "rows", n |-> n]

\* a variant of the except branch of the re-run that drops the first rows
rerun_raised_empty(context_records) == NoRecords

\* _fetch_full_results lines 981-983: the except branch keeps the first rows
rerun_raised(context_records) == context_records

IsResult(r) == "ok" \in DOMAIN r
Succeeded(r) == IsResult(r) /\ r.ok
Failed(r) == IsResult(r) /\ ~r.ok

(***************************************************************************)
(* State of one request                                                    *)
(***************************************************************************)
VARIABLES
    pc,                 \* the step the request is at
    entry,              \* "chat" for POST /chat, "direct" for a call of process
    question,           \* the stripped question
    category_filter,    \* the filter process is called with
    data_sources,       \* the enabled sources of the payload
    generated_cypher,   \* the normalised query text
    validation,         \* "none", "passed" or "raised"
    context_records,    \* rows of the first execution
    model_answer,       \* content of the answer reply
    result,             \* what process returned, None before
    graph_calls,        \* calls of graph.query, in order, with their outcome
    llm_calls,          \* prompts sent to the model, in order
    stages,             \* stages started, in order
    chat_answer,        \* answer of chat_endpoint
    chat_records,       \* context_records of chat_endpoint
    aggregated_context, \* what _aggregate_multi_dataset_context returned
    response,           \* the HTTP response, None before
    chat_history,       \* store["chat_history"], as its length
    last_context_records, \* store["last_context_records"]
    rows,               \* raw rows handed to _flatten_neo4j_records
    flat_records,       \* its output
    reflat_records,     \* its output on its own output
    fpc,                \* step of the flattening run
    comments,           \* comment list handed to _get_top_relevant_comments
    user_query,         \* its question
    top_n,              \* its top_n
    top_comments,       \* its output
    rpc,                \* step of the ranking run
    MAPBOX_ACCESS_TOKEN, \* whether Config.MAPBOX_ACCESS_TOKEN is set
    address_cache,      \* store["address_cache"]: rounded coordinate -> address
    cache_before,       \* the cache as the last enrichment call found it
    enrich_records,     \* records handed to the enrichment call, then returned
    geocode_calls,      \* geocoding requests of the last enrichment call
    epc,                \* outcome of the last enrichment call
    first_geocoded,     \* the address of the first successful call for each key
    agg_citylayers,     \* citylayers_records handed to the aggregation call
    agg_external,       \* its external_datasets
    agg_sources,        \* its data_sources
    agg_result,         \* what it returned
    apc,                \* step of the aggregation call
    SESSIONS,           \* the in-memory stores, keyed by session sid
    sid,                \* the session of each of two chat requests
    spc,                \* the statement each of them is at
    found_history,      \* store["chat_history"] as each found it
    read_history,       \* the history process was handed by each
    left_store,         \* the store as each left it
    history_lists,      \* the list objects that are or were a chat_history
    history_ref,        \* the list of each store and the list each request holds
    cleared,            \* the /clear requests served and the pairs they removed
    agent_call,         \* a call of one method of Neo4jAgent: name and arguments
    agent_result,       \* what the call returned
    agpc                \* step of the call

requestVars ==
    <<pc, entry, question, category_filter, data_sources, generated_cypher,
      validation, context_records, model_answer, result, graph_calls,
      llm_calls, stages, chat_answer, chat_records, aggregated_context,
      response, chat_history, last_context_records>>
flattenVars == <<rows, flat_records, reflat_records, fpc>>
rankVars == <<comments, user_query, top_n, top_comments, rpc>>
enrichVars == <<MAPBOX_ACCESS_TOKEN, address_cache, cache_before, enrich_records,
                geocode_calls, epc, first_geocoded>>
aggregateVars == <<agg_citylayers, agg_external, agg_sources, agg_result, apc>>
sessionVars == <<SESSIONS, sid, spc, found_history, read_history, left_store,
                 history_lists, history_ref, cleared>>
agentVars == <<agent_call, agent_result, agpc>>
sideVars == <<rankVars, enrichVars, aggregateVars, sessionVars, agentVars>>
vars == <<requestVars, flattenVars, sideVars>>

Sources == {"citylayers", "weather", "transport", "vegetation"}
SourceChoices == { {"citylayers"}, {"citylayers", "weather"}, {"weather"} }

Unranked(records) == [rows |-> records, scored |-> FALSE, addressed |-> FALSE]
NoContext == Unranked(NoRecords)

RequestInit ==
    /\ pc = "idle"
    /\ entry = "none"
    /\ question = <<>>
    /\ category_filter = "None"
    /\ data_sources = {}
    /\ generated_cypher = <<>>
    /\ validation = "none"
    /\ context_records = NoRecords
    /\ model_answer = [kind |-> "empty"]
    /\ result = None
    /\ graph_calls = <<>>
    /\ llm_calls = <<>>
    /\ stages = <<>>
    /\ chat_answer = EmptyAnswer
    /\ chat_records = NoContext
    /\ aggregated_context = None
    /\ response = None
    /\ chat_history = 0
    /\ last_context_records = NoContext

FlattenIdle ==
    /\ rows = <<>>
    /\ flat_records = <<>>
    /\ reflat_records = <<>>
    /\ fpc = "off"

RankIdle ==
    /\ comments = <<>>
    /\ user_query = <<>>
    /\ top_n = 0
    /\ top_comments = <<>>
    /\ rpc = "off"

\* a session without enrichment calls: get_session_store line 50
EnrichIdle ==
    /\ MAPBOX_ACCESS_TOKEN = FALSE
    /\ address_cache = <<>>
    /\ cache_before = <<>>
    /\ enrich_records = <<>>
    /\ geocode_calls = <<>>
    /\ epc = "off"
    /\ first_geocoded = <<>>

AggregateIdle ==
    /\ agg_citylayers = <<>>
    /\ agg_external = <<>>
    /\ agg_sources = {}
    /\ agg_result = None
    /\ apc = "off"

SessionsIdle ==
    /\ SESSIONS = <<>>
    /\ sid = <<>>
    /\ spc = <<>>
    /\ found_history = <<>>
    /\ read_history = <<>>
    /\ left_store = <<>>
    /\ history_lists = <<>>
    /\ history_ref = <<>>
    /\ cleared = <<>>

AgentIdle ==
    /\ agent_call = None
    /\ agent_result = None
    /\ agpc = "off"

Init ==
    /\ RequestInit /\ FlattenIdle /\ RankIdle /\ EnrichIdle /\ AggregateIdle
    /\ SessionsIdle /\ AgentIdle

\* process hands its result back: to chat_endpoint lines 687-696, which keeps
\* the answer and the rows of a successful result, or to the direct caller
Return(res) ==
    /\ result' = res
    /\ IF entry = "chat"
       THEN /\ pc' = "aggregate"
            /\ chat_answer' = IF res.ok THEN res.answer ELSE chat_answer
            /\ chat_records' = IF res.ok THEN Unranked(res.context_records)
                               ELSE chat_records
       ELSE /\ pc' = "done"
            /\ UNCHANGED <<chat_answer, chat_records>>

\* chat_endpoint lines 623-676: payload, empty-message check, category filter
ChatStart ==
    /\ pc = "idle"
    /\ \E message \in Questions, payload_filter \in CategoryFilters,
          detected_category_id \in {"None", "1"}, sources \in SourceChoices :
          LET q == Strip(message)
          IN  IF Len(q) = 0
              THEN /\ response' = [ok |-> FALSE, status |-> 400,
                                   error |-> "Empty message"]
                   /\ pc' = "done"
                   /\ UNCHANGED <<entry, question, category_filter, data_sources>>
              ELSE /\ entry' = "chat"
                   /\ question' = q
                   /\ category_filter' =
                        IF detected_category_id # "None"
                           /\ payload_filter \in {"None", "all"}
                        THEN detected_category_id
                        ELSE IF payload_filter = "all" THEN "None"
                        ELSE payload_filter
                   /\ data_sources' = sources
                   /\ pc' = IF "citylayers" \in sources THEN "generate"
                            ELSE "aggregate"
                   /\ UNCHANGED response
    /\ UNCHANGED <<generated_cypher, validation, context_records, model_answer,
                   result, graph_calls, llm_calls, stages, chat_answer,
                   chat_records, aggregated_context, chat_history,
                   last_context_records, flattenVars, sideVars>>

\* a caller other than chat_endpoint calls Neo4jAgent.process
ProcessCall ==
    /\ pc = "idle"
    /\ \E query \in {q \in Questions : Len(Strip(q)) > 0}, filter \in CategoryFilters :
          /\ question' = query
          /\ category_filter' = filter
    /\ entry' = "direct"
    /\ pc' = "generate"
    /\ UNCHANGED <<data_sources, generated_cypher, validation, context_records,
                   model_answer, result, graph_calls, llm_calls, stages,
                   chat_answer, chat_records, aggregated_context, response,
                   chat_history, last_context_records, flattenVars, sideVars>>

\* process lines 478-528: the model writes the query, the reply is normalised
GenerateCypher ==
    /\ pc = "generate"
    /\ stages' = Append(stages, "generation")
    /\ llm_calls' = Append(llm_calls, [kind |-> "cypher", context |-> NoContext])
    /\ \/ /\ Return(process_failure(ModelError))
          /\ UNCHANGED generated_cypher
       \/ \E text \in QueryTexts : \E content \in CypherContents(text) :
             /\ generated_cypher' = NormalizeGeneratedCypher(content)
             /\ pc' = "validate"
             /\ UNCHANGED <<result, chat_answer, chat_records>>
    /\ UNCHANGED <<entry, question, category_filter, data_sources, validation,
                   context_records, model_answer, graph_calls,
                   aggregated_context, response, chat_history,
                   last_context_records, flattenVars, sideVars>>

\* process lines 530-531
ValidateCypher ==
    /\ pc = "validate"
    /\ stages' = Append(stages, "validation")
    /\ LET k == validate_cypher_query(generated_cypher)
       IN  IF k # 0
           THEN /\ validation' = "raised"
                /\ Return(process_failure(DestructiveError(k)))
           ELSE /\ validation' = "passed"
                /\ pc' = "execute"
                /\ UNCHANGED <<result, chat_answer, chat_records>>
    /\ UNCHANGED <<entry, question, category_filter, data_sources,
                   generated_cypher, context_records, model_answer,
                   graph_calls, llm_calls, aggregated_context, response,
                   chat_history, last_context_records, flattenVars, sideVars>>

\* process lines 533-536: the graph service runs the text or raises; it has
\* no rows for an empty statement
ExecuteCypher ==
    /\ pc = "execute"
    /\ stages' = Append(stages, "execution")
    /\ \/ /\ graph_calls' = Append(graph_calls, GraphRaised(generated_cypher))
          /\ Return(process_failure(GraphError))
          /\ UNCHANGED context_records
       \/ \E n \in FirstCounts :
             /\ Len(generated_cypher) > 0
             /\ graph_calls' = Append(graph_calls, GraphRows(generated_cypher, n))
             /\ context_records' = [n |-> n, batch |-> "first"]
             /\ pc' = "answer"
             /\ UNCHANGED <<result, chat_answer, chat_records>>
    /\ UNCHANGED <<entry, question, category_filter, data_sources,
                   generated_cypher, validation, model_answer, llm_calls,
                   aggregated_context, response, chat_history,
                   last_context_records, flattenVars, sideVars>>

\* process lines 538-606: the context summary, then the answer of the model
GenerateAnswer ==
    /\ pc = "answer"
    /\ stages' = Append(stages, "answer_synthesis")
    /\ IF prepare_context_summary_raises(context_records, category_filter)
       THEN /\ Return(process_failure(IntError))
            /\ UNCHANGED <<llm_calls, model_answer>>
       ELSE /\ llm_calls' = Append(llm_calls,
                   [kind |-> "qa", context |-> Unranked(context_records)])
            /\ \/ /\ Return(process_failure(ModelError))
                  /\ UNCHANGED model_answer
               \/ \E content \in AnswerContents :
                     /\ model_answer' = content
                     /\ pc' = "widen"
                     /\ UNCHANGED <<result, chat_answer, chat_records>>
    /\ UNCHANGED <<entry, question, category_filter, data_sources,
                   generated_cypher, validation, context_records, graph_calls,
                   aggregated_context, response, chat_history,
                   last_context_records, flattenVars, sideVars>>

\* process lines 620-643 with _fetch_full_results lines 950-983: the re-run
\* without LIMIT when the first rows reach the threshold, then the result
FetchFullResults ==
    /\ pc = "widen"
    /\ IF ShouldWiden(context_records, generated_cypher)
       THEN /\ stages' = Append(stages, "widening")
            /\ LET text == full_query(generated_cypher, category_filter)
               IN  \/ /\ graph_calls' = Append(graph_calls, GraphRaised(text))
                      /\ Return(process_success(
                             final_answer(model_answer,
                                          rerun_raised(context_records), question),
                             rerun_raised(context_records), generated_cypher,
                             context_records))
                   \/ \E n \in RerunCounts :
                         LET all_records == [n |-> n, batch |-> "rerun"]
                         IN  /\ graph_calls' =
                                   Append(graph_calls, GraphRows(text, n))
                             /\ Return(process_success(
                                    final_answer(model_answer, all_records,
                                                 question),
                                    all_records, generated_cypher,
                                    context_records))
       ELSE /\ Return(process_success(
                   final_answer(model_answer, context_records, question),
                   context_records, generated_cypher, context_records))
            /\ UNCHANGED <<stages, graph_calls>>
    /\ UNCHANGED <<entry, question, category_filter, data_sources,
                   generated_cypher, validation, context_records, model_answer,
                   llm_calls, aggregated_context, response, chat_history,
                   last_context_records, flattenVars, sideVars>>




(***************************************************************************)
(* _aggregate_multi_dataset_context, app.py lines 488-573                  *)
(*                                                                         *)
(* Lists are sequences.  external_datasets is a function from the keys the *)
(* payload carries to the list under each key.  A float quotient is kept   *)
(* as the pair of its numerator and denominator.                           *)
(***************************************************************************)
\* a variant of the slice that keeps the end of the list
LastN(list, n) ==
    SubSeq(list, IF Len(list) > n THEN Len(list) - n + 1 ELSE 1, Len(list))

\* list[:n], lines 508, 542, 551, 568 and 569
FirstN(list, n) == SubSeq(list, 1, IF Len(list) > n THEN n ELSE Len(list))

aggregate_multi_dataset_context(citylayers_records, external_datasets, sources) ==
    LET \* the source is enabled and its payload entry is a non-empty list
        delivered(s) ==
            /\ s \in sources
            /\ s \in DOMAIN external_datasets
            /\ Len(external_datasets[s]) > 0
        \* lines 532-544
        weather_data == external_datasets["weather"]
        values(key) ==
            LET picked[k \in 0..Len(weather_data)] ==
                    IF k = 0 THEN <<>>
                    ELSE IF key \in DOMAIN weather_data[k]
                         THEN Append(picked[k - 1], weather_data[k][key])
                         ELSE picked[k - 1]
            IN  picked[Len(weather_data)]
        sum(list) ==
            LET total[k \in 0..Len(list)] ==
                    IF k = 0 THEN 0 ELSE total[k - 1] + list[k]
            IN  total[Len(list)]
        avg(list) == IF Len(list) > 0
                     THEN [num |-> sum(list), den |-> Len(list)]
                     ELSE [num |-> 0, den |-> 1]
        temps == values("temperature")
        winds == values("windSpeed")
        weather_summary ==
            [avg_temperature |-> avg(temps),
             min_temperature |->
                 IF Len(temps) > 0
                 THEN CHOOSE t \in Range(temps) : \A u \in Range(temps) : t <= u
                 ELSE 0,
             max_temperature |->
                 IF Len(temps) > 0
                 THEN CHOOSE t \in Range(temps) : \A u \in Range(temps) : t >= u
                 ELSE 0,
             avg_wind_speed |-> avg(winds),
             sample_points |-> FirstN(weather_data, 5)]
        \* lines 555-571
        vegetation_data == external_datasets["vegetation"]
        species(i) == IF "species" \in DOMAIN vegetation_data[i]
                      THEN vegetation_data[i].species
                      ELSE "Unknown"
        \* species_counts: one key per species, in the order of first
        \* appearance, with the number of its trees
        first_seen == {i \in 1..Len(vegetation_data) :
                          \A j \in 1..(i - 1) : species(j) # species(i)}
        species_counts ==
            [k \in 1..Cardinality(first_seen) |->
                LET i == CHOOSE f \in first_seen :
                             Cardinality({g \in first_seen : g < f}) = k - 1
                IN  <<species(i),
                      Cardinality({j \in 1..Len(vegetation_data) :
                                      species(j) = species(i)})>>]
        \* sorted(..., key=count, reverse=True): stable, so an item goes
        \* behind every item whose count is not lower
        insert(sorted, item) ==
            LET ahead == Cardinality({p \in 1..Len(sorted) :
                                         sorted[p][2] >= item[2]})
            IN  SubSeq(sorted, 1, ahead) \o <<item>>
                \o SubSeq(sorted, ahead + 1, Len(sorted))
        by_count(items) ==
            LET placed[k \in 0..Len(items)] ==
                    IF k = 0 THEN <<>> ELSE insert(placed[k - 1], items[k])
            IN  placed[Len(items)]
        summarise(items) ==
            [total_trees |-> Len(vegetation_data),
             species_diversity |-> Len(items),
             top_species |-> FirstN(by_count(items), 10),
             sample_trees |-> FirstN(vegetation_data, 10)]
        vegetation_summary == summarise(species_counts)
    IN  [s \in Sources |->
            [enabled |-> s \in sources,
             count |-> IF s = "citylayers" THEN Len(citylayers_records)
                       ELSE IF delivered(s) THEN Len(external_datasets[s])
                       ELSE 0,
             data |-> CASE s = "citylayers" -> FirstN(citylayers_records, 50)
                        [] s = "weather" /\ delivered(s) ->
                              [summary |-> weather_summary]
                        [] s = "transport" /\ delivered(s) ->
                              FirstN(external_datasets["transport"], 30)
                        [] s = "vegetation" /\ delivered(s) ->
                              [summary |-> vegetation_summary]
                        [] OTHER -> <<>>]]

\* the lists of the aggregation call: place records, stations, weather
\* points and trees
PlaceRecords(n) == [i \in 1..n |-> [place_id |-> i]]
Stations(n) == [i \in 1..n |-> [station |-> i]]
SpeciesNames ==
    <<"Acer", "Tilia", "Quercus", "Fraxinus", "Platanus", "Betula", "Populus",
      "Aesculus", "Robinia", "Ulmus", "Prunus", "Carpinus">>
Trees(pattern) ==
    [i \in 1..Len(pattern) |->
        IF pattern[i] = 0 THEN [height |-> i]
        ELSE [species |-> SpeciesNames[pattern[i]]]]
Absent == [present |-> FALSE, list |-> <<>>]
Given(list) == [present |-> TRUE, list |-> list]
WeatherChoices ==
    {Absent, Given(<<>>),
     Given(<<[temperature |-> 20, windSpeed |-> 3], [temperature |-> 26],
             [humidity |-> 40], [temperature |-> 17, windSpeed |-> 6],
             [windSpeed |-> 2], [temperature |-> 21]>>)}
TransportChoices == {Absent} \cup {Given(Stations(n)) : n \in {0, 29, 30, 31}}
VegetationChoices ==
    {Absent, Given(<<>>),
     Given(Trees(<<1, 2, 2, 3, 3, 3, 0, 0>>)),
     Given(Trees([i \in 1..45 |-> ((i * 7) % 12) + 1])),
     Given(Trees([i \in 1..40 |-> ((i * i) % 11) + 1]))}
ExternalDatasets ==
    {LET given == [weather |-> w, transport |-> t, vegetation |-> v]
     IN  [k \in {g \in DOMAIN given : given[g].present} |-> given[k].list] :
         w \in WeatherChoices, t \in TransportChoices, v \in VegetationChoices}

InitAggregate ==
    /\ RequestInit
    /\ FlattenIdle
    /\ RankIdle
    /\ EnrichIdle
    /\ SessionsIdle
    /\ AgentIdle
    /\ agg_citylayers \in {PlaceRecords(n) : n \in {0, 1, 49, 50, 51, 60}}
    /\ agg_external \in ExternalDatasets
    /\ agg_sources \in {{"citylayers"}, {"citylayers", "vegetation"},
                        {"weather", "transport", "vegetation"}, Sources}
    /\ agg_result = None
    /\ apc = "ready"

\* the call of chat_endpoint line 699
Aggregate ==
    /\ apc = "ready"
    /\ agg_result' = aggregate_multi_dataset_context(agg_citylayers, agg_external,
                                                     agg_sources)
    /\ apc' = "aggregated"
    /\ UNCHANGED <<requestVars, flattenVars, rankVars, enrichVars, sessionVars, agentVars,
                   agg_citylayers, agg_external, agg_sources>>

SpecAggregate == InitAggregate /\ [][Aggregate]_vars

(***************************************************************************)
(* chat_endpoint after process, app.py lines 698-767                       *)
(***************************************************************************)
\* number of payload sources whose aggregated entry is enabled, line 722
EnabledCount(sources, context) ==
    Cardinality({s \in sources : context[s].enabled})

\* a variant of the statement order with enrichment ahead of ranking
chat_next_enrich_first(step, multi) ==
    CASE step = "aggregate" -> "enrich"
      [] step = "enrich" -> "rank"
      [] step = "rank" -> IF multi THEN "multi" ELSE "respond"
      [] step = "multi" -> "respond"

\* the statement order of chat_endpoint lines 698-733
chat_next(step, multi) ==
    CASE step = "aggregate" -> "rank"
      [] step = "rank" -> "enrich"
      [] step = "enrich" -> IF multi THEN "multi" ELSE "respond"
      [] step = "multi" -> "respond"

\* the place records of chat_endpoint as the list handed on: one entry per row
RecordList(records) ==
    [i \in 1..records.rows.n |->
        [row |-> i, batch |-> records.rows.batch,
         scored |-> records.scored, addressed |-> records.addressed]]

\* external_datasets of the payload, line 641
PayloadDatasets ==
    {<<>>, [k \in {"weather"} |-> <<[temperature |-> 20, windSpeed |-> 3]>>]}

\* chat_endpoint lines 698-703
AggregateContext ==
    /\ pc = "aggregate"
    /\ stages' = Append(stages, "context_aggregation")
    /\ \E external_datasets \in PayloadDatasets :
          aggregated_context' =
             aggregate_multi_dataset_context(RecordList(chat_records),
                                             external_datasets, data_sources)
    /\ pc' = chat_next("aggregate", FALSE)
    /\ UNCHANGED <<entry, question, category_filter, data_sources,
                   generated_cypher, validation, context_records, model_answer,
                   result, graph_calls, llm_calls, chat_answer, chat_records,
                   response, chat_history, last_context_records, flattenVars, sideVars>>

\* chat_endpoint lines 710-711 with _apply_comment_relevance_scoring: an
\* empty list is returned as it is, otherwise every record is scored
ApplyRelevance ==
    /\ pc = "rank"
    /\ stages' = Append(stages, "ranking")
    /\ chat_records' = [chat_records EXCEPT !.scored = chat_records.rows.n > 0]
    /\ pc' = chat_next("rank", FALSE)
    /\ UNCHANGED <<entry, question, category_filter, data_sources,
                   generated_cypher, validation, context_records, model_answer,
                   result, graph_calls, llm_calls, chat_answer,
                   aggregated_context, response, chat_history,
                   last_context_records, flattenVars, sideVars>>

\* chat_endpoint lines 713-719 with _enrich_context_with_addresses: skipped
\* without records or without a Mapbox token
EnrichAddresses ==
    /\ pc = "enrich"
    /\ stages' = Append(stages, "enrichment")
    /\ \E mapbox_token \in BOOLEAN :
          chat_records' = [chat_records EXCEPT
                             !.addressed = mapbox_token /\ chat_records.rows.n > 0]
    /\ pc' = chat_next("enrich", EnabledCount(data_sources, aggregated_context) > 1)
    /\ UNCHANGED <<entry, question, category_filter, data_sources,
                   generated_cypher, validation, context_records, model_answer,
                   result, graph_calls, llm_calls, chat_answer,
                   aggregated_context, response, chat_history,
                   last_context_records, flattenVars, sideVars>>

\* chat_endpoint lines 721-731 with process_multi_dataset: a second answer
\* from the aggregated context replaces the first one when it succeeds
MultiDataset ==
    /\ pc = "multi"
    /\ stages' = Append(stages, "multi_synthesis")
    /\ llm_calls' = Append(llm_calls,
          [kind |-> "multi", context |-> aggregated_context["citylayers"].data])
    /\ \/ UNCHANGED chat_answer
       \/ \E dont_know \in BOOLEAN :
             chat_answer' = [text |-> [kind |-> "multi", dont_know |-> dont_know],
                             map_notice |-> FALSE, total_notice |-> FALSE,
                             online |-> FALSE]
    /\ pc' = chat_next("multi", TRUE)
    /\ UNCHANGED <<entry, question, category_filter, data_sources,
                   generated_cypher, validation, context_records, model_answer,
                   result, graph_calls, chat_records, aggregated_context,
                   response, chat_history, last_context_records, flattenVars, sideVars>>

\* chat_endpoint lines 733-767: the error for a missing or failed result,
\* otherwise online enrichment, the session store, the visualisation
\* recommendation, the history and the response.  _get_viz_recommendation
\* (line 746) and _inject_geolocation_into_tables (line 756) read fields of
\* the rows outside any handler of their own and raise on a row whose place
\* or category is None; line 766 turns the exception into a 500 response.
Respond ==
    /\ pc = "respond"
    /\ IF ~Succeeded(result)
       THEN /\ response' = [ok |-> FALSE, status |-> 500,
                            error |-> "No data available from selected sources"]
            /\ UNCHANGED <<chat_answer, chat_history, last_context_records>>
       ELSE \E online \in BOOLEAN,
               raised \in IF chat_records.rows.n > 0
                          THEN {"none", "viz_recommendation", "inject_geolocation"}
                          ELSE {"none"} :
               /\ chat_answer' = [chat_answer EXCEPT !.online =
                                     online /\ "citylayers" \in data_sources
                                     /\ chat_records.rows.n > 0]
               /\ last_context_records' = chat_records
               /\ chat_history' = IF raised = "viz_recommendation"
                                  THEN chat_history
                                  ELSE chat_history + 1
               /\ response' =
                     IF raised = "none"
                     THEN [ok |-> TRUE, status |-> 200,
                           answer |-> chat_answer', context |-> chat_records]
                     ELSE [ok |-> FALSE, status |-> 500,
                           error |-> "'NoneType' object has no attribute 'get'"]
    /\ pc' = "done"
    /\ UNCHANGED <<entry, question, category_filter, data_sources,
                   generated_cypher, validation, context_records, model_answer,
                   result, graph_calls, llm_calls, stages, chat_records,
                   aggregated_context, flattenVars, sideVars>>

\* map_data lines 770-783: GET /map-data flattens the rows the last chat
\* request stored
MapData ==
    /\ pc = "done"
    /\ entry = "chat"
    /\ stages' = Append(stages, "record_aggregation")
    /\ pc' = "mapped"
    /\ UNCHANGED <<entry, question, category_filter, data_sources,
                   generated_cypher, validation, context_records, model_answer,
                   result, graph_calls, llm_calls, chat_answer, chat_records,
                   aggregated_context, response, chat_history,
                   last_context_records, flattenVars, sideVars>>

Next ==
    \/ ChatStart
    \/ ProcessCall
    \/ GenerateCypher
    \/ ValidateCypher
    \/ ExecuteCypher
    \/ GenerateAnswer
    \/ FetchFullResults
    \/ AggregateContext
    \/ ApplyRelevance
    \/ EnrichAddresses
    \/ MultiDataset
    \/ Respond
    \/ MapData

Spec == Init /\ [][Next]_vars

(***************************************************************************)
(* _flatten_neo4j_records, app.py lines 1097-1242.  A row and a node are   *)
(* mappings from keys to values; None is the record None above, the empty  *)
(* mapping is <<>>, and a value that is a list is the mapping of "list" to *)
(* its items.                                                              *)
(***************************************************************************)
IsNone(v) == DOMAIN v = {"none"}
IsList(v) == DOMAIN v = {"list"}
\* truth value of a node: None, the empty mapping and the empty list are
\* false
Truthy(v) == ~IsNone(v) /\ DOMAIN v # {} /\ (IsList(v) => v.list # <<>>)
\* record.get(key)
Get(record, key) == IF key \in DOMAIN record THEN record[key] ELSE None

\* "not place_id" of line 1117 is false exactly for an identifier that is
\* present and is not 0
HasPlaceId(place) == "place_id" \in DOMAIN place /\ place["place_id"] # 0

CategoryKeys == <<"c", "c1", "c2", "c3", "c4", "c5", "c6">>

CATEGORY_ID_MAPPING ==
    [id \in 1..6 |->
        CASE id = 1 -> "Beauty" [] id = 2 -> "Sound" [] id = 3 -> "Movement"
          [] id = 4 -> "Protection" [] id = 5 -> "Climate Comfort"
          [] id = 6 -> "Activities"]

\* lines 1122-1130
NewGroup(place) ==
    [place_id |-> place["place_id"], p |-> place, categories |-> <<>>,
     comments |-> <<>>, grades |-> <<>>, subgrades |-> <<>>, images |-> <<>>,
     category_ids_from_grades |-> <<>>]

\* a variant that takes every item of a list-valued key
NodesOf(record, key) ==
    IF key \in DOMAIN record /\ Truthy(record[key])
    THEN IF IsList(record[key]) THEN record[key].list ELSE <<record[key]>>
    ELSE <<>>

\* [record[key]] when the key is present with a true value that is a
\* mapping, else []: lines 1133-1138 and the like
NodeOf(record, key) ==
    IF key \in DOMAIN record /\ Truthy(record[key]) /\ ~IsList(record[key])
    THEN <<record[key]>> ELSE <<>>

RECURSIVE CategoriesOf(_, _)
CategoriesOf(record, i) ==
    IF i > Len(CategoryKeys) THEN <<>>
    ELSE NodeOf(record, CategoryKeys[i]) \o CategoriesOf(record, i + 1)

\* lines 1149-1164: the category reference of a grade, when it has one
GradeCategoryOf(record) ==
    LET grade == NodeOf(record, "pg")
    IN  IF grade # <<>> /\ "category" \in DOMAIN grade[1]
        THEN <<grade[1]["category"]>> ELSE <<>>

\* lines 1132-1180: what one row adds to the group of its place
Accumulate(group, record) ==
    [group EXCEPT
        !.categories = @ \o CategoriesOf(record, 1),
        !.comments = @ \o NodeOf(record, "co"),
        !.grades = @ \o NodeOf(record, "pg"),
        !.category_ids_from_grades = @ \o GradeCategoryOf(record),
        !.subgrades = @ \o NodeOf(record, "psg"),
        !.images = @ \o NodeOf(record, "i")]

\* a variant that also accepts a record that is already keyed by its place
AddRecordKeyed(place_groups, record) ==
    LET place == IF "p.place_id" \in DOMAIN record
                 THEN [place_id |-> record["p.place_id"]]
                 ELSE Get(record, "p")
    IN  IF ~Truthy(place) \/ ~HasPlaceId(place) THEN place_groups
        ELSE LET at == {g \in 1..Len(place_groups) :
                           place_groups[g].place_id = place["place_id"]}
             IN  IF at = {}
                 THEN Append(place_groups, Accumulate(NewGroup(place), record))
                 ELSE LET g == CHOOSE g \in at : TRUE
                      IN  [place_groups EXCEPT ![g] = Accumulate(@, record)]

\* lines 1105-1180 for one row: skipped without a place or an identifier,
\* else added to the group of its place, which is created on its first row
AddRecord(place_groups, record) ==
    LET place == Get(record, "p")
    IN  IF ~Truthy(place) \/ ~HasPlaceId(place) THEN place_groups
        ELSE LET at == {g \in 1..Len(place_groups) :
                           place_groups[g].place_id = place["place_id"]}
             IN  IF at = {}
                 THEN Append(place_groups, Accumulate(NewGroup(place), record))
                 ELSE LET g == CHOOSE g \in at : TRUE
                      IN  [place_groups EXCEPT ![g] = Accumulate(@, record)]

RECURSIVE GroupRecords(_, _, _)
GroupRecords(records, i, place_groups) ==
    IF i > Len(records) THEN place_groups
    ELSE GroupRecords(records, i + 1, AddRecord(place_groups, records[i]))

\* list(set(ids)) for small integers: CPython yields them in increasing order
RECURSIVE SortedSeq(_)
SortedSeq(S) ==
    IF S = {} THEN <<>>
    ELSE LET m == CHOOSE x \in S : \A y \in S : x <= y
         IN  <<m>> \o SortedSeq(S \ {m})

\* a variant that makes one entry per reference, repeated ones included
CategoriesFromGradesRepeated(ids) ==
    LET known == SelectSeq(ids, LAMBDA id : id \in DOMAIN CATEGORY_ID_MAPPING)
    IN  [k \in 1..Len(known) |->
            [category_id |-> known[k], type |-> CATEGORY_ID_MAPPING[known[k]]]]

\* lines 1211-1227: categories rebuilt from the references of the grades
CategoriesFromGrades(ids) ==
    LET known == SortedSeq({id \in Range(ids) : id \in DOMAIN CATEGORY_ID_MAPPING})
    IN  [k \in 1..Len(known) |->
            [category_id |-> known[k], type |-> CATEGORY_ID_MAPPING[known[k]]]]

\* lines 1193-1203 and 1218-1230: the value of 'categories_info', [] when
\* the key is not set
CategoriesInfo(group) ==
    IF group.categories # <<>> THEN group.categories
    ELSE CategoriesFromGrades(group.category_ids_from_grades)

PKey(key) == "p." \o key

\* lines 1183-1240: the flat record of one group
FlatRecord(group) ==
    LET lists == [categories_info |-> CategoriesInfo(group),
                  comments_info |-> group.comments,
                  place_grades |-> group.grades,
                  category_ids_from_grades |->
                      SortedSeq(Range(group.category_ids_from_grades)),
                  place_subgrades |-> group.subgrades,
                  images |-> group.images]
        present == {k \in DOMAIN lists : lists[k] # <<>>}
        pkeys == {PKey(key) : key \in DOMAIN group.p}
    IN  [k \in pkeys \cup present |->
            IF k \in present THEN lists[k]
            ELSE group.p[CHOOSE key \in DOMAIN group.p : PKey(key) = k]]

flatten_neo4j_records(records) ==
    LET place_groups == GroupRecords(records, 1, <<>>)
    IN  [g \in 1..Len(place_groups) |-> FlatRecord(place_groups[g])]

(***************************************************************************)
(* Raw rows for the flattening run                                         *)
(***************************************************************************)
PlaceA == [place_id |-> 1, location |-> "A"]
PlaceB == [place_id |-> 2, location |-> "B"]
PlaceZero == [place_id |-> 0, location |-> "Z"]
PlaceNoId == [location |-> "X"]
Beauty == [category_id |-> 1, type |-> "Beauty"]
Activities == [category_id |-> 6, type |-> "Activities"]

GradeOf(category) == [grade |-> 4, category |-> category]

RowSet ==
    { [p |-> PlaceA, c |-> Beauty],
      [p |-> PlaceA, c |-> Activities, co |-> [content |-> "quiet"]],
      [p |-> PlaceA, pg |-> GradeOf(1)],
      [p |-> PlaceB, c |-> Activities,
       co |-> [list |-> <<[content |-> "busy", relevance_score |-> 0]>>]],
      [p |-> PlaceA, pg |-> GradeOf(2), psg |-> [subgrade |-> 3]],
      [p |-> PlaceB, pg |-> GradeOf(7)],
      [p |-> PlaceB, pg |-> [grade |-> 5], i |-> [url |-> "a.png"],
       c |-> None],
      [c |-> Beauty],
      [p |-> PlaceNoId, c |-> Beauty],
      [p |-> PlaceZero, c |-> Beauty],
      [p |-> None, pg |-> GradeOf(1)] }

MaxRows == 3

RowSeqs == UNION { [1..n -> RowSet] : n \in 0..MaxRows }

InitFlatten ==
    /\ RequestInit
    /\ rows \in RowSeqs
    /\ flat_records = <<>>
    /\ reflat_records = <<>>
    /\ fpc = "ready"
    /\ RankIdle
    /\ EnrichIdle
    /\ AggregateIdle
    /\ SessionsIdle
    /\ AgentIdle

\* map_data line 783: the stored rows are flattened
Flatten ==
    /\ fpc = "ready"
    /\ flat_records' = flatten_neo4j_records(rows)
    /\ fpc' = "flat"
    /\ UNCHANGED <<requestVars, rows, reflat_records, sideVars>>

\* the flattened records handed to _flatten_neo4j_records again
ReFlatten ==
    /\ fpc = "flat"
    /\ reflat_records' = flatten_neo4j_records(flat_records)
    /\ fpc' = "reflat"
    /\ UNCHANGED <<requestVars, rows, flat_records, sideVars>>

NextFlatten ==
    \/ Flatten
    \/ ReFlatten

SpecFlatten == InitFlatten /\ [][NextFlatten]_vars

(***************************************************************************)
(* Comment ranking, app.py lines 63-155.  A relevance score is the         *)
(* fraction num/den; the points of a keyword are kept in tenths, so that   *)
(* 1.0, 0.5 and 0.3 are 10, 5 and 3 and the 1.8 of the divisor is 18.      *)
(***************************************************************************)
stop_words ==
    { "the", "a", "an", "and", "or", "but", "in", "on", "at", "to", "for",
      "of", "with", "by", "from", "as", "is", "was", "are", "were", "been",
      "be", "have", "has", "had", "do", "does", "did", "will", "would", "should",
      "could", "may", "might", "can", "this", "that", "these", "those", "i",
      "you", "he", "she", "it", "we", "they", "what", "which", "who", "when",
      "where", "why", "how", "show", "tell", "find", "get", "about", "me" }

EarlyChars == 50

\* _score_comment_relevance lines 74-120
score_comment_relevance(comment_text, user_query_) ==
    IF Len(comment_text) = 0 \/ Len(user_query_) = 0 THEN [num |-> 0, den |-> 1]
    ELSE
    LET comment_lower == Lower(comment_text)
        query_lower == Lower(user_query_)
        n == Len(query_lower)
        \* re.findall(r'\b\w+\b', query_lower): the maximal runs of word
        \* characters, from index i on
        RunEnd(i) == CHOOSE j \in (i + 1)..(n + 1) :
                        /\ \A k \in i..(j - 1) : IsWordChar(query_lower[k])
                        /\ j = n + 1 \/ ~IsWordChar(query_lower[j])
        words[d \in 0..n] ==
            LET i == n + 1 - d
            IN  IF d = 0 THEN <<>>
                ELSE IF ~IsWordChar(query_lower[i]) THEN words[d - 1]
                ELSE <<SubSeq(query_lower, i, RunEnd(i) - 1)>>
                         \o words[n + 1 - RunEnd(i)]
        query_words == words[n]
        joined(w) == LET j[k \in 0..Len(w)] ==
                             IF k = 0 THEN "" ELSE j[k - 1] \o w[k]
                     IN  j[Len(w)]
        keywords == SelectSeq(query_words,
                              LAMBDA w : joined(w) \notin stop_words /\ Len(w) > 2)
        early == SubSeq(comment_lower, 1,
                        IF Len(comment_lower) < EarlyChars
                        THEN Len(comment_lower) ELSE EarlyChars)
        points(keyword) ==
            IF Contains(comment_lower, keyword)
            THEN 10 + (IF Contains(early, keyword) THEN 5 ELSE 0)
                    + (IF Len(keyword) > 4 THEN 3 ELSE 0)
            ELSE 0
        total[k \in 0..Len(keywords)] ==
            IF k = 0 THEN 0 ELSE total[k - 1] + points(keywords[k])
        score == total[Len(keywords)]
        max_possible_score == Len(keywords) * 18
    IN  IF keywords = <<>> \/ score = 0 THEN [num |-> 0, den |-> 1]
        ELSE [num |-> IF score > max_possible_score
                      THEN max_possible_score ELSE score,
              den |-> max_possible_score]

\* a >= b for two relevance scores
ScoreAtLeast(a, b) == a.num * b.den >= b.num * a.den

\* a variant of the sort that places a comment ahead of the comments of
\* equal score already placed
InsertAheadOfEquals(sorted, scored) ==
    LET ahead == {k \in 1..Len(sorted) :
                     ~ScoreAtLeast(scored.relevance_score, sorted[k].relevance_score)}
    IN  SubSeq(sorted, 1, Cardinality(ahead)) \o <<scored>>
            \o SubSeq(sorted, Cardinality(ahead) + 1, Len(sorted))

\* list.sort(key=relevance_score, reverse=True) is stable: a comment goes
\* behind every comment placed before it whose score is not lower
InsertByRelevance(sorted, scored) ==
    LET ahead == {k \in 1..Len(sorted) :
                     ScoreAtLeast(sorted[k].relevance_score, scored.relevance_score)}
    IN  SubSeq(sorted, 1, Cardinality(ahead)) \o <<scored>>
            \o SubSeq(sorted, Cardinality(ahead) + 1, Len(sorted))

\* comment.get('text') or comment.get('content') or
\* comment.get('comment_text') or ''
CommentText(comment) ==
    LET value(key) == IF key \in DOMAIN comment THEN comment[key] ELSE <<>>
    IN  IF value("text") # <<>> THEN value("text")
        ELSE IF value("content") # <<>> THEN value("content")
        ELSE value("comment_text")

\* _get_top_relevant_comments lines 139-155
get_top_relevant_comments(comments_, user_query_, top_n_) ==
    IF comments_ = <<>> THEN <<>>
    ELSE
    LET with_text == SelectSeq(comments_, LAMBDA c : CommentText(c) # <<>>)
        scored_comments ==
            [k \in 1..Len(with_text) |->
                [key \in DOMAIN with_text[k] \cup {"relevance_score"} |->
                    IF key = "relevance_score"
                    THEN score_comment_relevance(CommentText(with_text[k]),
                                                 user_query_)
                    ELSE with_text[k][key]]]
        sorted[k \in 0..Len(scored_comments)] ==
            IF k = 0 THEN <<>>
            ELSE InsertByRelevance(sorted[k - 1], scored_comments[k])
        all == sorted[Len(scored_comments)]
    IN  SubSeq(all, 1, IF top_n_ < Len(all) THEN top_n_ ELSE Len(all))

\* comments of a place: two that score alike, one that names a keyword only
\* after its first 50 characters, two that name none, one without text
CommentSet ==
    { [text |-> <<"Q","u","i","e","t"," ","a","r","e","a">>],
      [content |-> <<"A"," ","q","u","i","e","t"," ","a","r","e","a">>],
      [text |-> <<"T","h","e"," ","b","e","n","c","h","e","s"," ","a","r","e"," ","o","l","d"," ","a","n","d"," ","t","h","e"," ","p","a","t","h","s"," ","g","e","t"," ","m","u","d","d","y"," ","a","f","t","e","r"," ","r","a","i","n"," ","i","n"," ","t","h","e"," ","p","a","r","k","s">>],
      [text |-> <<"L","o","u","d">>],
      [comment_text |-> <<"B","u","s","y">>],
      [text |-> <<>>, author |-> "anna"] }

MaxComments == 3

InitRank ==
    /\ RequestInit
    /\ FlattenIdle
    /\ EnrichIdle
    /\ AggregateIdle
    /\ SessionsIdle
    /\ AgentIdle
    /\ comments \in UNION { [1..n -> CommentSet] : n \in 0..MaxComments }
    /\ user_query \in Questions
    /\ top_n \in {1, 2, 5}
    /\ top_comments = <<>>
    /\ rpc = "ready"

\* one call of _get_top_relevant_comments
RankComments ==
    /\ rpc = "ready"
    /\ top_comments' = get_top_relevant_comments(comments, user_query, top_n)
    /\ rpc' = "ranked"
    /\ UNCHANGED <<requestVars, flattenVars, enrichVars, aggregateVars,
                   sessionVars, agentVars, comments, user_query,
                   top_n>>

SpecRank == InitRank /\ [][RankComments]_vars

(***************************************************************************)
(* Address enrichment, app.py lines 226-431.  A coordinate is a whole      *)
(* number of 1/100000 degrees, so 48.20823 is 4820823; the model's         *)
(* coordinates do not end in 5, where round() depends on the binary        *)
(* representation of the float.                                            *)
(***************************************************************************)
\* round(x, 4) of a non-negative coordinate
Round4(x) == IF x % 10 < 5 THEN x - (x % 10) ELSE x + 10 - (x % 10)

\* cache_key = (round(lat, 4), round(lon, 4))
CacheKey(lat, lon) == <<Round4(lat), Round4(lon)>>

\* what the geocoding service does with one request: requests.get raises,
\* or answers with a status and the place names of its features
Replies ==
    { [raises |-> "Timeout"],
      [raises |-> "RequestException"],
      [raises |-> "none", status_code |-> 429],
      [raises |-> "none", status_code |-> 500],
      [raises |-> "none", status_code |-> 200, features |-> <<>>],
      [raises |-> "none", status_code |-> 200, features |-> <<"">>],
      [raises |-> "none", status_code |-> 200,
       features |-> <<"Stephansplatz 1, 1010 Wien">>],
      [raises |-> "none", status_code |-> 200,
       features |-> <<"Domgasse 2, 1010 Wien", "Wien">>] }

\* line 243: the coordinates are not 0 and lie in [-90, 90] x [-180, 180]
ValidCoordinates(lat, lon) ==
    ~(lat = 0 \/ lon = 0 \/ lat < -9000000 \/ lat > 9000000
      \/ lon < -18000000 \/ lon > 18000000)

\* _reverse_geocode_location lines 243-294; requested tells whether
\* requests.get was called
reverse_geocode_location(lat, lon, reply) ==
    IF ~ValidCoordinates(lat, lon)
    THEN [ok |-> FALSE, error |-> "Invalid coordinates", address |-> "",
          requested |-> FALSE]
    ELSE LET failed(error) == [ok |-> FALSE, error |-> error, address |-> "",
                               requested |-> TRUE]
         IN  CASE reply.raises = "Timeout" -> failed("Request timeout")
               [] reply.raises = "RequestException" -> failed("Network error")
               [] reply.status_code = 429 -> failed("Rate limit exceeded")
               [] reply.status_code # 200 -> failed("API returned status")
               [] reply.features = <<>> -> failed("No address found")
               [] reply.features[1] = "" -> failed("No place_name in response")
               [] OTHER -> [ok |-> TRUE, error |-> "",
                            address |-> reply.features[1], requested |-> TRUE]

\* a variant that keeps only the addresses of the batch in the cache
batch_geocode_forgetting(locations, cache, replies) ==
    LET key(l) == CacheKey(l[1], l[2])
        geocode(l) == reverse_geocode_location(l[1], l[2], replies[key(l)])
        resolved == {l \in Range(locations) : geocode(l).ok /\ geocode(l).address # ""}
        address(k) == geocode(CHOOSE l \in resolved : key(l) = k).address
        requested == SelectSeq(locations, LAMBDA l : geocode(l).requested)
    IN  [results |-> [k \in {key(l) : l \in resolved} |-> address(k)],
         address_cache |-> [k \in {key(l) : l \in resolved} |-> address(k)],
         calls |-> [i \in 1..Len(requested) |-> key(requested[i])]]

\* a variant that geocodes every location, cached or not
batch_geocode_uncached(locations, cache, replies) ==
    LET key(l) == CacheKey(l[1], l[2])
        geocode(l) == reverse_geocode_location(l[1], l[2], replies[key(l)])
        resolved == {l \in Range(locations) : geocode(l).ok /\ geocode(l).address # ""}
        address(k) == geocode(CHOOSE l \in resolved : key(l) = k).address
    IN  [results |-> [k \in {key(l) : l \in resolved} |-> address(k)],
         address_cache |-> [k \in DOMAIN cache \cup {key(l) : l \in resolved} |->
                               IF k \in {key(l) : l \in resolved}
                               THEN address(k) ELSE cache[k]],
         calls |-> LET requested == SelectSeq(locations,
                                              LAMBDA l : geocode(l).requested)
                   IN  [i \in 1..Len(requested) |-> key(requested[i])]]

\* _batch_geocode_locations lines 315-354, for locations of different cache
\* keys: the cached ones are answered from the cache, the others are
\* geocoded, and every success is written to the cache
batch_geocode_locations(locations, cache, replies) ==
    LET key(l) == CacheKey(l[1], l[2])
        locations_to_geocode ==
            SelectSeq(locations, LAMBDA l : key(l) \notin DOMAIN cache)
        geocode(l) == reverse_geocode_location(l[1], l[2], replies[key(l)])
        resolved == {l \in Range(locations_to_geocode) :
                        geocode(l).ok /\ geocode(l).address # ""}
        address(k) == geocode(CHOOSE l \in resolved : key(l) = k).address
        found == {key(l) : l \in Range(locations)} \cap DOMAIN cache
    IN  [results |-> [k \in found \cup {key(l) : l \in resolved} |->
                         IF k \in found THEN cache[k] ELSE address(k)],
         address_cache |-> [k \in DOMAIN cache \cup {key(l) : l \in resolved} |->
                               IF k \in DOMAIN cache THEN cache[k] ELSE address(k)],
         calls |-> LET requested == SelectSeq(locations_to_geocode,
                                              LAMBDA l : geocode(l).requested)
                   IN  [i \in 1..Len(requested) |-> key(requested[i])]]

max_locations == 50

\* the records _enrich_context_with_addresses looks at, line 383
Considered(context_records_) ==
    SubSeq(context_records_, 1,
           IF Len(context_records_) < max_locations
           THEN Len(context_records_) ELSE max_locations)

\* lines 384-388: the place of a record has a latitude and a longitude that
\* are not 0
HasCoordinates(record) ==
    /\ "p" \in DOMAIN record
    /\ "latitude" \in DOMAIN record.p /\ record.p.latitude # 0
    /\ "longitude" \in DOMAIN record.p /\ record.p.longitude # 0

RecordKey(record) == CacheKey(record.p.latitude, record.p.longitude)

\* a variant that makes one location per record
LocationsPerRecord(context_records_) ==
    LET with == SelectSeq(Considered(context_records_), HasCoordinates)
    IN  [k \in 1..Len(with) |-> <<with[k].p.latitude, with[k].p.longitude>>]

\* lines 380-393: one (lat, lon) per cache key, that of its first record
LocationsToGeocode(context_records_) ==
    LET considered == Considered(context_records_)
        first == {i \in 1..Len(considered) :
                    /\ HasCoordinates(considered[i])
                    /\ \A j \in 1..(i - 1) :
                          HasCoordinates(considered[j]) =>
                              RecordKey(considered[j]) # RecordKey(considered[i])}
        ordered == SortedSeq(first)
    IN  [k \in 1..Len(ordered) |->
            <<considered[ordered[k]].p.latitude, considered[ordered[k]].p.longitude>>]

\* a variant of the fallback that does not look at the place
FallbackUnknown(record) == "Unknown Location"

\* lines 418-421: p.get('location', 'Unknown Location')
FallbackAddress(record) ==
    IF "location" \in DOMAIN record.p THEN record.p.location
    ELSE "Unknown Location"

\* _enrich_context_with_addresses lines 375-431; p.get on a place that is
\* None raises AttributeError on line 385
enrich_context_with_addresses(context_records_, mapbox_token, cache, replies) ==
    LET unchanged == [raised |-> FALSE, records |-> context_records_,
                      address_cache |-> cache, calls |-> <<>>]
        considered == Considered(context_records_)
        locations_to_geocode == LocationsToGeocode(context_records_)
    IN  IF context_records_ = <<>> \/ ~mapbox_token THEN unchanged
        ELSE IF \E i \in 1..Len(considered) :
                   "p" \in DOMAIN considered[i] /\ IsNone(considered[i].p)
        THEN [unchanged EXCEPT !.raised = TRUE]
        ELSE IF locations_to_geocode = <<>> THEN unchanged
        ELSE
        LET geocoded == batch_geocode_locations(locations_to_geocode, cache, replies)
            precise_address(record) ==
                IF RecordKey(record) \in DOMAIN geocoded.results
                THEN geocoded.results[RecordKey(record)]
                ELSE FallbackAddress(record)
        IN  [raised |-> FALSE,
             records |->
                [i \in 1..Len(context_records_) |->
                    LET record == context_records_[i]
                    IN  IF i <= Len(considered) /\ HasCoordinates(record)
                        THEN [key \in DOMAIN record \cup {"precise_address"} |->
                                 IF key = "precise_address"
                                 THEN precise_address(record) ELSE record[key]]
                        ELSE record],
             address_cache |-> geocoded.address_cache,
             calls |-> geocoded.calls]

\* rows of the graph: two places of one rounded coordinate, two of another
\* (one without a location name), one on the equator, one out of range, one
\* row whose place is None
EnrichRecordSet ==
    { [p |-> [latitude |-> 4820820, longitude |-> 1637380,
              location |-> "Stephansplatz"]],
      [p |-> [latitude |-> 4820823, longitude |-> 1637382,
              location |-> "Stephansdom"]],
      [p |-> [latitude |-> 4821000, longitude |-> 1637000,
              location |-> "Votivkirche"]],
      [p |-> [latitude |-> 4821000, longitude |-> 1637000]],
      [p |-> [latitude |-> 0, longitude |-> 1637000, location |-> "Equator"]],
      [p |-> [latitude |-> 9500000, longitude |-> 1637000,
              location |-> "Nowhere"]],
      [p |-> None] }

MaxBatch == 2

\* a short list of rows, and lists that pass max_locations: 49 rows of one
\* place ahead of two more rows
EnrichBatches ==
    LET short == UNION { [1..n -> EnrichRecordSet] : n \in 0..MaxBatch }
        many == [i \in 1..(max_locations - 1) |->
                    [p |-> [latitude |-> 4821000, longitude |-> 1637000,
                            location |-> "Votivkirche"]]]
        last == { r \in EnrichRecordSet :
                     HasCoordinates(r) /\ "location" \in DOMAIN r.p
                     /\ ValidCoordinates(r.p.latitude, r.p.longitude) }
    IN  short \cup {many \o s : s \in [1..2 -> last]}

InitEnrich ==
    /\ RequestInit
    /\ FlattenIdle
    /\ RankIdle
    /\ AggregateIdle
    /\ SessionsIdle
    /\ AgentIdle
    /\ MAPBOX_ACCESS_TOKEN \in BOOLEAN
    /\ address_cache = <<>>
    /\ cache_before = <<>>
    /\ enrich_records = <<>>
    /\ geocode_calls = <<>>
    /\ epc = "ready"
    /\ first_geocoded = <<>>

\* a chat request of the session has its records, chat_endpoint line 711
EnrichRequest ==
    /\ epc \in {"ready", "enriched", "raised"}
    /\ enrich_records' \in EnrichBatches
    /\ geocode_calls' = <<>>
    /\ epc' = "pending"
    /\ UNCHANGED <<requestVars, flattenVars, rankVars, aggregateVars,
                   sessionVars, agentVars, MAPBOX_ACCESS_TOKEN,
                   address_cache, cache_before, first_geocoded>>

\* the service answered the request with a place name
GeocodingSucceeded(reply) ==
    /\ reply.raises = "none"
    /\ reply.status_code = 200
    /\ reply.features # <<>>
    /\ reply.features[1] # ""

\* the call of _enrich_context_with_addresses, chat_endpoint lines 714-719;
\* the service replies to the requests for the coordinates that are valid
\* and not in the cache
EnrichCall ==
    /\ epc = "pending"
    /\ LET asked == { CacheKey(l[1], l[2]) :
                        l \in { m \in Range(LocationsToGeocode(enrich_records)) :
                                   ValidCoordinates(m[1], m[2]) } }
                    \ DOMAIN address_cache
       IN  \E service \in [asked -> Replies] :
              LET replies == [k \in {CacheKey(l[1], l[2]) :
                                       l \in Range(LocationsToGeocode(enrich_records))} |->
                                 IF k \in asked THEN service[k]
                                 ELSE [raises |-> "Timeout"]]
                  done == enrich_context_with_addresses(
                              enrich_records, MAPBOX_ACCESS_TOKEN, address_cache,
                              replies)
              IN  /\ cache_before' = address_cache
                  /\ address_cache' = done.address_cache
                  /\ enrich_records' = done.records
                  /\ geocode_calls' = done.calls
                  /\ epc' = IF done.raised THEN "raised" ELSE "enriched"
                  /\ first_geocoded' =
                        LET succeeded == {k \in Range(done.calls) \ DOMAIN first_geocoded :
                                            GeocodingSucceeded(replies[k])}
                        IN  [k \in DOMAIN first_geocoded \cup succeeded |->
                               IF k \in DOMAIN first_geocoded THEN first_geocoded[k]
                               ELSE replies[k].features[1]]
    /\ UNCHANGED <<requestVars, flattenVars, rankVars, aggregateVars,
                   sessionVars, agentVars, MAPBOX_ACCESS_TOKEN>>

\* clear_session lines 1622-1626, served between two chat requests: the
\* result set of the store is emptied, the address cache is not touched
ClearBetweenRequests ==
    /\ epc \in {"enriched", "raised"}
    /\ enrich_records' = <<>>
    /\ epc' = "ready"
    /\ UNCHANGED <<requestVars, flattenVars, rankVars, aggregateVars,
                   sessionVars, agentVars, MAPBOX_ACCESS_TOKEN,
                   address_cache, cache_before, geocode_calls, first_geocoded>>

NextEnrich ==
    \/ EnrichRequest
    \/ EnrichCall
    \/ ClearBetweenRequests

SpecEnrich == InitEnrich /\ [][NextEnrich]_vars

(***************************************************************************)
(* Two chat requests served at the same time                               *)
(*                                                                         *)
(* app.run (app.py line 2627) serves every request on a thread of its own. *)
(* get_session_store (lines 39-60) hands every request of a session the    *)
(* same dictionary, and chat_endpoint keeps a reference to its             *)
(* chat_history list (line 628), so every read of the history is a read of *)
(* the store.  A step is one statement of chat_endpoint that reads or      *)
(* writes the store.                                                       *)
(***************************************************************************)
Requests == {1, 2}
SessionIds == {"s1", "s2"}
Pair(r) == [question |-> r, answer |-> r]
Records(r) == <<[place_id |-> r]>>
SharedCoordinate == <<4820820, 1637380>>

\* /clear requests served in a run
MaxClears == 1

\* lines 47-59: the store of a session seen for the first time
NewStore == [chat_history |-> <<>>, last_context_records |-> <<>>,
             address_cache |-> <<>>]

\* SESSIONS[s].chat_history is the content of the list the store refers to,
\* history_lists[history_ref.store[s]]; a request holds the list it read on
\* line 628
InitSessions ==
    /\ RequestInit
    /\ FlattenIdle
    /\ RankIdle
    /\ EnrichIdle
    /\ AggregateIdle
    /\ AgentIdle
    /\ \/ /\ SESSIONS = <<>>
          /\ history_lists = <<>>
          /\ history_ref = [store |-> <<>>, held |-> [r \in Requests |-> 0]]
       \/ /\ SESSIONS = [s \in {"s1"} |->
                           [NewStore EXCEPT !.chat_history = <<Pair(0)>>,
                                            !.last_context_records = Records(0)]]
          /\ history_lists = <<<<Pair(0)>>>>
          /\ history_ref = [store |-> [s \in {"s1"} |-> 1],
                            held |-> [r \in Requests |-> 0]]
    /\ sid \in {s \in [Requests -> SessionIds] : s[1] = "s1"}
    /\ spc = [r \in Requests |-> "new"]
    /\ found_history = [r \in Requests |-> <<>>]
    /\ read_history = [r \in Requests |-> <<>>]
    /\ left_store = [r \in Requests |-> NewStore]
    /\ cleared = [count |-> 0, pairs |-> {}]

\* get_session_store lines 39-60: the store of the session, made when the
\* session has none, with a new empty list as its history
StoreOf(s) ==
    [stores |-> IF s \in DOMAIN SESSIONS THEN SESSIONS
                ELSE [t \in DOMAIN SESSIONS \cup {s} |->
                        IF t = s THEN NewStore ELSE SESSIONS[t]],
     lists |-> IF s \in DOMAIN SESSIONS THEN history_lists
               ELSE Append(history_lists, <<>>),
     refs |-> IF s \in DOMAIN SESSIONS THEN history_ref.store
              ELSE [t \in DOMAIN SESSIONS \cup {s} |->
                      IF t = s THEN Len(history_lists) + 1
                      ELSE history_ref.store[t]]]

\* chat_endpoint lines 625-628 with get_session_store
GetSessionStore(r) ==
    /\ spc[r] = "new"
    /\ SESSIONS' = StoreOf(sid[r]).stores
    /\ history_lists' = StoreOf(sid[r]).lists
    /\ history_ref' = [store |-> StoreOf(sid[r]).refs,
                       held |-> [history_ref.held EXCEPT
                                   ![r] = StoreOf(sid[r]).refs[sid[r]]]]
    /\ found_history' = [found_history EXCEPT ![r] = SESSIONS'[sid[r]].chat_history]
    /\ spc' = [spc EXCEPT ![r] = "started"]
    /\ UNCHANGED <<sid, read_history, left_store, cleared,
                   requestVars, flattenVars, rankVars, enrichVars,
                   aggregateVars, agentVars>>

\* lines 680-693 and 734-735: process is handed the list the request holds; a
\* failed result ends the request with the store as it is
ProcessQuestion(r) ==
    /\ spc[r] = "started"
    /\ read_history' = [read_history EXCEPT
                          ![r] = history_lists[history_ref.held[r]]]
    /\ \E ok \in BOOLEAN :
          /\ spc' = [spc EXCEPT ![r] = IF ok THEN "processed" ELSE "rejected"]
          /\ left_store' = IF ok THEN left_store
                           ELSE [left_store EXCEPT ![r] = SESSIONS[sid[r]]]
    /\ UNCHANGED <<SESSIONS, sid, found_history, history_lists, history_ref,
                   cleared, requestVars, flattenVars, rankVars, enrichVars,
                   aggregateVars, agentVars>>

\* lines 714-719: the address cache of the store is filled in place
FillAddressCache(r) ==
    /\ spc[r] = "processed"
    /\ LET cache == SESSIONS[sid[r]].address_cache
       IN  SESSIONS' =
              IF SharedCoordinate \in DOMAIN cache THEN SESSIONS
              ELSE [SESSIONS EXCEPT ![sid[r]].address_cache =
                      [k \in {SharedCoordinate} |-> "Stephansplatz 1, 1010 Wien"]]
    /\ spc' = [spc EXCEPT ![r] = "enriched"]
    /\ UNCHANGED <<sid, found_history, read_history, left_store,
                   history_lists, history_ref, cleared,
                   requestVars, flattenVars, rankVars, enrichVars,
                   aggregateVars, agentVars>>

\* line 742
StoreContextRecords(r) ==
    /\ spc[r] = "enriched"
    /\ SESSIONS' = [SESSIONS EXCEPT ![sid[r]].last_context_records = Records(r)]
    /\ spc' = [spc EXCEPT ![r] = "stored"]
    /\ UNCHANGED <<sid, found_history, read_history, left_store,
                   history_lists, history_ref, cleared,
                   requestVars, flattenVars, rankVars, enrichVars,
                   aggregateVars, agentVars>>

\* lines 749-765: the pair is appended to the list the request holds
\* (line 749), that list is made the history of the store (line 750) and the
\* response is returned
AppendHistory(r) ==
    /\ spc[r] = "stored"
    /\ history_lists' = [history_lists EXCEPT
                           ![history_ref.held[r]] = Append(@, Pair(r))]
    /\ history_ref' = [history_ref EXCEPT
                         !.store[sid[r]] = history_ref.held[r]]
    /\ SESSIONS' = [SESSIONS EXCEPT
                      ![sid[r]].chat_history =
                          history_lists'[history_ref.held[r]]]
    /\ left_store' = [left_store EXCEPT ![r] = SESSIONS'[sid[r]]]
    /\ spc' = [spc EXCEPT ![r] = "done"]
    /\ UNCHANGED <<sid, found_history, read_history, cleared,
                   requestVars, flattenVars, rankVars, enrichVars,
                   aggregateVars, agentVars>>

\* clear_session lines 1617-1629: the store gets a new empty list as its
\* history and an empty last result set; the address cache is left alone
ClearSession(s) ==
    /\ cleared.count < MaxClears
    /\ history_lists' = Append(StoreOf(s).lists, <<>>)
    /\ history_ref' = [history_ref EXCEPT
                         !.store = [StoreOf(s).refs EXCEPT
                                      ![s] = Len(history_lists')]]
    /\ SESSIONS' = [StoreOf(s).stores EXCEPT
                      ![s].chat_history = <<>>,
                      ![s].last_context_records = <<>>]
    /\ cleared' = [count |-> cleared.count + 1,
                   pairs |-> cleared.pairs \cup
                             {<<s, pair>> :
                                pair \in Range(StoreOf(s).stores[s].chat_history)}]
    /\ UNCHANGED <<sid, spc, found_history, read_history, left_store,
                   requestVars, flattenVars, rankVars, enrichVars,
                   aggregateVars, agentVars>>

NextSessions ==
    \/ \E r \in Requests :
          \/ GetSessionStore(r)
          \/ ProcessQuestion(r)
          \/ FillAddressCache(r)
          \/ StoreContextRecords(r)
          \/ AppendHistory(r)
    \/ \E s \in SessionIds : ClearSession(s)

SpecSessions == InitSessions /\ [][NextSessions]_vars

(***************************************************************************)
(* Methods of Neo4jAgent called on their own                               *)
(*                                                                         *)
(* A prompt is kept as the list of its parts and a part by the values the  *)
(* source formats into it.  A dictionary is a mapping, {} is <<>>.         *)
(***************************************************************************)
\* _get_map_bounds_prompt lines 861-863: a clicked point with both
\* coordinates
IsSinglePoint(map_context) ==
    /\ Truthy(map_context)
    /\ "clickedPoint" \in DOMAIN map_context
    /\ Truthy(map_context["clickedPoint"])
    /\ {"lat", "lng"} \subseteq DOMAIN map_context["clickedPoint"]

\* a variant with the join of the category made optional
CategoryPartOptional(filter, is_single_point) ==
    IF filter \in {"None", "", "all"} THEN <<>>
    ELSE <<[kind |-> "CATEGORY FILTER ACTIVE",
            category_id |-> filter, join |-> "OPTIONAL MATCH",
            pattern |-> "(p:places)<-[:ASSOCIATED_WITH]-(pg:place_grades)-[:OF_CATEGORY]->(c:categories)",
            where |-> "c.category_id = " \o filter,
            limit |-> "Do NOT use LIMIT"]>>

\* lines 884-920 (filter is category_filter): the part for a category filter that is set and not 'all'
CategoryPart(filter, is_single_point) ==
    LET names == [k \in {"1", "2", "3", "4", "5", "6"} |->
                    CASE k = "1" -> "Beauty" [] k = "2" -> "Sound"
                      [] k = "3" -> "Movement" [] k = "4" -> "Protection"
                      [] k = "5" -> "Climate Comfort" [] k = "6" -> "Activities"]
        category_name == IF filter \in DOMAIN names
                         THEN names[filter]
                         ELSE "Category ID " \o filter
    IN  IF filter \in {"None", "", "all"} THEN <<>>
        ELSE IF is_single_point
        THEN <<[kind |-> "Category filter active",
                category_name |-> category_name,
                category_id |-> filter]>>
        ELSE <<[kind |-> "CATEGORY FILTER ACTIVE",
                category_name |-> category_name,
                category_id |-> filter, join |-> "MATCH",
                pattern |-> "(p:places)<-[:ASSOCIATED_WITH]-(pg:place_grades)-[:OF_CATEGORY]->(c:categories)",
                where |-> "c.category_id = " \o filter,
                limit |-> "Do NOT use LIMIT"]>>

\* a variant that leaves the bounds out when a category filter is set
BoundsPartWithoutCategory(map_context, filter, is_single_point) ==
    LET b == map_context["bounds"]
    IN  IF /\ Truthy(map_context) /\ "bounds" \in DOMAIN map_context
           /\ ~is_single_point
           /\ filter \in {"None", "", "all"}
           /\ {"north", "south", "east", "west"} \subseteq DOMAIN b
        THEN <<[kind |-> "MAP BOUNDS PROVIDED", north |-> b.north,
                south |-> b.south, east |-> b.east, west |-> b.west]>>
        ELSE <<>>

\* lines 922-943: the part for bounds with all four sides
BoundsPart(map_context, filter, is_single_point) ==
    LET b == map_context["bounds"]
    IN  IF /\ Truthy(map_context) /\ "bounds" \in DOMAIN map_context
           /\ ~is_single_point
           /\ {"north", "south", "east", "west"} \subseteq DOMAIN b
        THEN <<[kind |-> "MAP BOUNDS PROVIDED", north |-> b.north,
                south |-> b.south, east |-> b.east, west |-> b.west]>>
        ELSE <<>>

\* _get_map_bounds_prompt lines 848-948; b.get on bounds that are None raises
\* AttributeError on line 924
get_map_bounds_prompt(map_context, filter) ==
    LET is_single_point == IsSinglePoint(map_context)
        clicked == map_context["clickedPoint"]
        point_part ==
            IF is_single_point
            THEN <<[kind |-> "USER CLICKED ON A SPECIFIC POINT",
                    lat |-> clicked.lat, lng |-> clicked.lng,
                    limit |-> "LIMIT 1"]>>
            ELSE <<>>
        raises == /\ Truthy(map_context) /\ "bounds" \in DOMAIN map_context
                  /\ ~is_single_point
                  /\ IsNone(map_context["bounds"])
        prompt_parts == point_part
                        \o CategoryPart(filter, is_single_point)
                        \o BoundsPart(map_context, filter, is_single_point)
    IN  IF raises THEN [raised |-> TRUE, parts |-> <<>>]
        ELSE [raised |-> FALSE,
              parts |-> IF prompt_parts = <<>>
                        THEN <<[kind |-> "No specific map bounds or category filter provided"]>>
                        ELSE prompt_parts]

\* longest chat history handed to _enhance_query_with_history
MaxHistory == 3

\* (question, answer) pairs of earlier requests; an answer may be empty
Turns == {<<"where is it quiet", "Votivpark">>, <<"show parks", "">>,
          <<"and beauty", "Stephansplatz">>}

RECURSIVE Histories(_)
Histories(n) ==
    IF n = 0 THEN {<<>>}
    ELSE Histories(n - 1) \cup
         {Append(h, t) : h \in {g \in Histories(n - 1) : Len(g) = n - 1},
                         t \in Turns}

\* a variant that keeps the first two turns
FirstTurns(history) == FirstN(history, 2)

\* line 843: chat_history[-2:]
LastTurns(history) ==
    [i \in 1..(IF Len(history) < 2 THEN Len(history) ELSE 2) |->
        history[Len(history) - (IF Len(history) < 2 THEN Len(history) ELSE 2) + i]]

RECURSIVE PreviousLines(_)
\* lines 842-844: two lines for each turn, joined by line breaks
PreviousLines(turns) ==
    IF turns = <<>> THEN <<>>
    ELSE <<[label |-> "Previous Q: ", text |-> turns[1][1]],
           [label |-> "Previous A: ", text |-> turns[1][2]]>>
         \o PreviousLines(Tail(turns))

\* _enhance_query_with_history lines 840-846; the text is kept as its lines,
\* a line as its label and what follows it, a list as [list |-> items]
enhance_query_with_history(query, history) ==
    IF ~Truthy(history)
    THEN <<[label |-> "", text |-> query]>>
    ELSE PreviousLines(LastTurns(history.list))
         \o <<[label |-> "", text |-> ""],
              [label |-> "Current question: ", text |-> query]>>

\* a reply that is a JSON object in a string
JsonTexts == {W_json_open \o <<"M","A","T","C","H"," ","(","p",")"," ","R","E","T","U","R","N"," ","p">> \o W_json_close}

\* llm_response.content for a text in one of the envelopes
Envelope(e, body) ==
    CASE e = "str" -> [kind |-> "str", text |-> body]
      [] e = "dict" -> [kind |-> "dict", text |-> body]
      [] e = "list" -> [kind |-> "list",
                        blocks |-> <<[kind |-> "dict", text |-> body]>>]
      [] e = "list of two" ->
            [kind |-> "list", blocks |-> <<[kind |-> "dict", text |-> body],
                                           [kind |-> "dict", text |-> <<>>]>>]
      [] e = "dict without text" -> [kind |-> "dict"]

Envelopes == {"str", "dict", "list", "list of two", "dict without text"}

\* _format_results lines 1143-1151: the category shown for a record
CategoryShown(record) ==
    IF "c" \in DOMAIN record /\ Truthy(record.c)
    THEN IF "name" \in DOMAIN record.c THEN record.c.name
         ELSE IF "description" \in DOMAIN record.c THEN record.c.description
         ELSE "N/A"
    ELSE IF "category" \in DOMAIN record.p THEN record.p.category
    ELSE "N/A"

RECURSIVE TableRows(_, _)
\* lines 1137-1153: a row for every record of the preview that has a 'p' key,
\* numbered by the record's position
TableRows(preview, i) ==
    IF i > Len(preview) THEN <<>>
    ELSE (IF "p" \in DOMAIN preview[i]
          THEN <<[number |-> i,
                  location |-> IF "location" \in DOMAIN preview[i].p
                               THEN preview[i].p.location ELSE "Unknown",
                  category |-> CategoryShown(preview[i])]>>
          ELSE <<>>)
         \o TableRows(preview, i + 1)

\* _format_results lines 1107-1159 with the records written out; place.get on
\* a 'p' that is None raises AttributeError (line 1140)
FormatResults(context) ==
    LET total_count == Len(context)
        preview_count == IF total_count < PreviewCount THEN total_count
                         ELSE PreviewCount
        preview == FirstN(context, preview_count)
    IN  IF context = <<>>
        THEN [kind |-> "text", text |-> "**No results found.**"]
        ELSE IF \E i \in 1..preview_count :
                    "p" \in DOMAIN preview[i] /\ IsNone(preview[i].p)
        THEN [kind |-> "raised"]
        ELSE [kind |-> "table", total |-> total_count, shown |-> preview_count,
              table |-> TableRows(preview, 1),
              more |-> total_count - preview_count]

\* longest list of records built from every kind of record
MaxContext == 2

\* rows of a result: the two of the test, a null category, a category record
\* with category_id and type, one with a description only, an empty one, a
\* row without a place and a row with a null place
RecordKinds ==
    <<[p |-> [location |-> "Test Place 1", category |-> "Old Category"],
       c |-> [name |-> "New Category", description |-> "Desc"]],
      [p |-> [location |-> "Test Place 2"]],
      [p |-> [location |-> "Votivpark", category |-> "Sound"], c |-> None],
      [p |-> [location |-> "Votivkirche", category |-> "Beauty"],
       c |-> [category_id |-> 1, type |-> "Beauty"]],
      [p |-> [place_id |-> 7], c |-> [description |-> "Desc"]],
      [p |-> [location |-> "Stephansplatz"], c |-> <<>>],
      [total |-> 3],
      [p |-> None]>>

RECURSIVE ContextsUpTo(_)
ContextsUpTo(n) ==
    IF n = 0 THEN {<<>>}
    ELSE ContextsUpTo(n - 1) \cup
         {Append(l, RecordKinds[k]) :
            l \in {g \in ContextsUpTo(n - 1) : Len(g) = n - 1},
            k \in 1..Len(RecordKinds)}

\* lists around the length of the preview, cycling through the first six
\* kinds and with one row without a place
LongContexts ==
    {[i \in 1..n |-> IF i = gap THEN RecordKinds[7]
                     ELSE RecordKinds[((i + k) % 6) + 1]] :
        n \in (PreviewCount - 1)..(PreviewCount + 2), k \in 0..5,
        gap \in {0, 3, PreviewCount + 1}}

\* map contexts of a request: none, empty, a clicked point with or without
\* both coordinates, bounds with or without all sides, and combinations
MapContexts ==
    LET points == {[absent |-> TRUE], None, [lat |-> 4820820, lng |-> 1637380],
                   [lat |-> 4820820]}
        boxes == {[absent |-> TRUE], None, <<>>,
                  [north |-> 4830000, south |-> 0, east |-> 1650000,
                   west |-> 1620000],
                  [north |-> 4830000, south |-> 4810000, east |-> 1650000]}
        given(v) == DOMAIN v # {"absent"}
    IN  {None} \cup
        {LET c == [clickedPoint |-> p, bounds |-> b]
         IN  [k \in {g \in DOMAIN c : given(c[g])} |-> c[k]] :
            p \in points, b \in boxes}

PromptFilters == {"None", "", "all", "1", "6", "7"}

InitAgent ==
    /\ RequestInit
    /\ FlattenIdle
    /\ RankIdle
    /\ EnrichIdle
    /\ AggregateIdle
    /\ SessionsIdle
    /\ agent_call \in
          {[method |-> "_get_map_bounds_prompt", map_context |-> m,
            category_filter |-> f] : m \in MapContexts, f \in PromptFilters}
          \cup
          {[method |-> "_enhance_query_with_history", query |-> q,
            history |-> h] :
              q \in {"which places are loud", ""},
              h \in {None} \cup {[list |-> g] : g \in Histories(MaxHistory)}}
          \cup
          {[method |-> "_format_results", context |-> l] :
              l \in ContextsUpTo(MaxContext) \cup LongContexts}
          \cup
          {[method |-> "normalize", text |-> t, fenced |-> b, envelope |-> e] :
              t \in QueryTexts \cup JsonTexts, b \in BOOLEAN, e \in Envelopes}
    /\ agent_result = None
    /\ agpc = "called"

\* process line 476
GetMapBoundsPrompt ==
    /\ agpc = "called"
    /\ agent_call.method = "_get_map_bounds_prompt"
    /\ agent_result' = get_map_bounds_prompt(agent_call.map_context,
                                             agent_call.category_filter)
    /\ agpc' = "returned"
    /\ UNCHANGED <<requestVars, flattenVars, rankVars, enrichVars,
                   aggregateVars, sessionVars, agent_call>>

\* process line 473
EnhanceQueryWithHistory ==
    /\ agpc = "called"
    /\ agent_call.method = "_enhance_query_with_history"
    /\ agent_result' = enhance_query_with_history(agent_call.query,
                                                  agent_call.history)
    /\ agpc' = "returned"
    /\ UNCHANGED <<requestVars, flattenVars, rankVars, enrichVars,
                   aggregateVars, sessionVars, agent_call>>

\* process lines 492-526
NormalizeReply ==
    /\ agpc = "called"
    /\ agent_call.method = "normalize"
    /\ agent_result' = NormalizeGeneratedCypher(
            Envelope(agent_call.envelope,
                     IF agent_call.fenced THEN Fenced(agent_call.text)
                     ELSE agent_call.text))
    /\ agpc' = "returned"
    /\ UNCHANGED <<requestVars, flattenVars, rankVars, enrichVars,
                   aggregateVars, sessionVars, agent_call>>

\* process line 625
FormatResultsCall ==
    /\ agpc = "called"
    /\ agent_call.method = "_format_results"
    /\ agent_result' = FormatResults(agent_call.context)
    /\ agpc' = "returned"
    /\ UNCHANGED <<requestVars, flattenVars, rankVars, enrichVars,
                   aggregateVars, sessionVars, agent_call>>

NextAgent ==
    \/ NormalizeReply
    \/ FormatResultsCall
    \/ GetMapBoundsPrompt
    \/ EnhanceQueryWithHistory

SpecAgent == InitAgent /\ [][NextAgent]_vars

(***************************************************************************)
(* Properties                                                              *)
(***************************************************************************)
\* the text holds a mutation keyword or the bulk-iteration call as a whole
\* word, whatever the letter case
ContainsForbidden(query) ==
    LET upper_query == Upper(query)
    IN  \/ \E w \in {W_DELETE, W_DETACH, W_DROP, W_CREATE, W_MERGE, W_SET, W_REMOVE} :
              SearchWord(upper_query, w)
        \/ SearchCall(upper_query, W_CALL, Upper(W_apoc_periodic_iterate))

\* C1: a generated text that holds DELETE, DETACH, DROP, CREATE, MERGE, SET,
\* REMOVE or the call of apoc.periodic.iterate as a whole word, in any letter
\* case and anywhere in the text, is stopped by the validator: it is never
\* passed to graph.query.
C1_ForbiddenNeverExecuted ==
    \A i \in 1..Len(graph_calls) : ~ContainsForbidden(graph_calls[i].query)

\* C2: when validation raises, process returns exactly ok = false, an error
\* naming the destructive pattern and empty context_records, with no answer;
\* no answer prompt was sent and the graph was not called, and the chat
\* response carries no answer.
C2_ValidationFailure ==
    validation = "raised" =>
        /\ IsResult(result)
        /\ DOMAIN result = {"ok", "error", "context_records"}
        /\ result.ok = FALSE
        /\ result.error.kind = "destructive"
        /\ result.error.pattern \in 1..Len(forbidden_patterns)
        /\ result.context_records.n = 0
        /\ \A i \in 1..Len(llm_calls) : llm_calls[i].kind # "qa"
        /\ graph_calls = <<>>
        /\ "ok" \in DOMAIN response =>
              response.ok = FALSE /\ "answer" \notin DOMAIN response

C2_Witness ==
    /\ validation = "raised"
    /\ entry = "chat"
    /\ "weather" \in data_sources
    /\ "ok" \in DOMAIN response
    /\ Failed(result)

\* C3: for a generated text with no forbidden word, validation passes, the
\* first graph call carries exactly that text, and unless the graph or the
\* model fails the result is ok = true.
C3_SafeTextSucceeds ==
    (validation # "none" /\ ~ContainsForbidden(generated_cypher)) =>
        /\ validation = "passed"
        /\ Len(graph_calls) >= 1 => graph_calls[1].query = generated_cypher
        /\ Failed(result) => result.error.kind \in {"graph", "model"}

C7_GraphFailure ==
    (Len(graph_calls) >= 1 /\ graph_calls[1].outcome = "raised") =>
        /\ Failed(result)
        /\ DOMAIN result = {"ok", "error", "context_records"}
        /\ result.error = GraphError
        /\ result.context_records.n = 0
        /\ Len(graph_calls) = 1
        /\ graph_calls[1].query = generated_cypher
        /\ Len(SelectSeq(llm_calls, LAMBDA c : c.kind = "cypher")) = 1
        /\ \A i \in 1..Len(llm_calls) : llm_calls[i].kind # "qa"

C7_Witness ==
    /\ Len(graph_calls) = 1
    /\ graph_calls[1].outcome = "raised"
    /\ Failed(result)
    /\ pc = "done"

\* the rows whose place carries the identifier pid
PlaceRows(pid) ==
    {i \in 1..Len(rows) :
        LET place == Get(rows[i], "p")
        IN  Truthy(place) /\ "place_id" \in DOMAIN place /\ place["place_id"] = pid}

\* the category references of the grades in the rows of pid
GradeReferences(pid) ==
    {rows[i]["pg"]["category"] : i \in
        {j \in PlaceRows(pid) : /\ "pg" \in DOMAIN rows[j]
                                /\ Truthy(rows[j]["pg"])
                                /\ "category" \in DOMAIN rows[j]["pg"]}}

\* some row of pid carries a category-join value
HasDirectCategory(pid) ==
    \E i \in PlaceRows(pid) : \E k \in 1..Len(CategoryKeys) :
        Truthy(Get(rows[i], CategoryKeys[k]))

\* C8: the flattened output has exactly one record per distinct place_id
\* found in a row whose place carries a place identifier.
C8_OnePerPlaceId ==
    fpc # "ready" =>
        LET ids == {pid \in 0..2 : PlaceRows(pid) # {}}
        IN  /\ Len(flat_records) = Cardinality(ids)
            /\ \A pid \in ids :
                  Cardinality({k \in 1..Len(flat_records) :
                                  flat_records[k]["p.place_id"] = pid}) = 1

\* C9: for a flattened place whose rows hold grade references and no
\* category-join value, the category collection holds exactly one entry per
\* distinct reference between 1 and 6, named by the fixed mapping; references
\* outside 1..6 are dropped, and when none is inside the collection is absent.
C9_CategoriesFromGrades ==
    fpc # "ready" =>
        \A k \in 1..Len(flat_records) :
            LET rec == flat_records[k]
                pid == rec["p.place_id"]
                known == GradeReferences(pid) \cap 1..6
                names == <<"Beauty", "Sound", "Movement", "Protection",
                           "Climate Comfort", "Activities">>
            IN  (GradeReferences(pid) # {} /\ ~HasDirectCategory(pid)) =>
                    IF known = {} THEN "categories_info" \notin DOMAIN rec
                    ELSE /\ "categories_info" \in DOMAIN rec
                         /\ Len(rec["categories_info"]) = Cardinality(known)
                         /\ Range(rec["categories_info"]) =
                               {[category_id |-> id, type |-> names[id]] : id \in known}

C9_Witness ==
    /\ fpc = "flat"
    /\ \E k \in 1..Len(flat_records) :
          /\ ~HasDirectCategory(flat_records[k]["p.place_id"])
          /\ "place_grades" \in DOMAIN flat_records[k]
          /\ Len(flat_records[k]["place_grades"]) = 3
          /\ "categories_info" \in DOMAIN flat_records[k]
          /\ flat_records[k]["categories_info"] =
                <<[category_id |-> 1, type |-> "Beauty"],
                  [category_id |-> 2, type |-> "Sound"]>>

\* C9 as stated: with grade references and no category-join value the
\* category collection is non-empty and has one entry per distinct reference.
C9_EveryReferenceNamed ==
    fpc # "ready" =>
        \A k \in 1..Len(flat_records) :
            LET rec == flat_records[k]
                pid == rec["p.place_id"]
            IN  (GradeReferences(pid) # {} /\ ~HasDirectCategory(pid)) =>
                    /\ "categories_info" \in DOMAIN rec
                    /\ Len(rec["categories_info"]) = Cardinality(GradeReferences(pid))

\* C10: flattening the flattened output yields no record at all, since no
\* flattened record has a 'p' entry; the number of places is kept only when
\* the first output was already empty.
C10_ReflattenEmpty ==
    fpc = "reflat" =>
        /\ reflat_records = <<>>
        /\ Len(reflat_records) = Len(flat_records) <=> flat_records = <<>>

C10_Witness ==
    /\ fpc = "reflat"
    /\ Len(flat_records) = 2
    /\ "categories_info" \in DOMAIN flat_records[1]
    /\ "place_grades" \in DOMAIN flat_records[2]

\* C10 as stated: flattening the flattened output keeps the number of places
\* and each place's category, comment and grade collections.
C10_Idempotent ==
    fpc = "reflat" =>
        /\ Len(reflat_records) = Len(flat_records)
        /\ \A k \in 1..Len(flat_records) :
              \A key \in {"categories_info", "comments_info", "place_grades"} :
                  /\ key \in DOMAIN reflat_records[k] <=> key \in DOMAIN flat_records[k]
                  /\ key \in DOMAIN flat_records[k] =>
                        reflat_records[k][key] = flat_records[k][key]

\* a ranked comment without the score it was given
Unscored(scored) == [key \in DOMAIN scored \ {"relevance_score"} |-> scored[key]]

\* the comments of the list that are given the score s, in their order
CommentsScored(list, query, s) ==
    SelectSeq(list, LAMBDA c :
        /\ CommentText(c) # <<>>
        /\ score_comment_relevance(CommentText(c), query) = s)

\* C11: the ranked comments are in non-increasing order of relevance score,
\* and the ranked comments of one score are, in the same order, the first
\* comments of that score in the list that was handed in
C11_RankedOrder ==
    rpc = "ranked" =>
        /\ \A i \in 1..Len(top_comments) : \A j \in (i + 1)..Len(top_comments) :
              ScoreAtLeast(top_comments[i].relevance_score,
                           top_comments[j].relevance_score)
        /\ \A k \in 1..Len(top_comments) :
              LET s == top_comments[k].relevance_score
                  ranked == SelectSeq(top_comments,
                                      LAMBDA c : c.relevance_score = s)
                  given == CommentsScored(comments, user_query, s)
              IN  /\ Len(ranked) <= Len(given)
                  /\ \A m \in 1..Len(ranked) : Unscored(ranked[m]) = given[m]

\* a ranking that moved a comment ahead of an earlier one of lower score and
\* returned two different comments of equal score
C11_Witness ==
    /\ rpc = "ranked"
    /\ Len(top_comments) >= 3
    /\ \E i \in 1..Len(top_comments) : \E j \in (i + 1)..Len(top_comments) :
          /\ top_comments[i].relevance_score = top_comments[j].relevance_score
          /\ Unscored(top_comments[i]) # Unscored(top_comments[j])
    /\ Unscored(top_comments[1]) # comments[1]
    /\ top_comments[1].relevance_score.num > 0

\* C12: the ranking returns min(top_n, len(comments)) comments
C12_ReturnsMinTopN ==
    rpc = "ranked" =>
        Len(top_comments) = IF top_n < Len(comments) THEN top_n ELSE Len(comments)


\* the records of the last enrichment call that were looked at and have
\* coordinates
Located ==
    {i \in 1..Len(enrich_records) :
        i <= max_locations /\ HasCoordinates(enrich_records[i])}

\* the address a record was given, "none" when it was given none
AddressOf(record) ==
    IF "precise_address" \in DOMAIN record THEN record.precise_address ELSE "none"

\* C13: a call makes no geocoding request for a coordinate that was in the
\* cache when it started, leaves the cached address as it was, and gives the
\* records of a cached coordinate the cached address, which is the address
\* the resolving call gave them
C13_CacheHit ==
    epc = "enriched" =>
        /\ \A k \in DOMAIN cache_before :
              /\ k \notin Range(geocode_calls)
              /\ k \in DOMAIN address_cache
              /\ address_cache[k] = cache_before[k]
        /\ MAPBOX_ACCESS_TOKEN =>
              \A i \in Located :
                 RecordKey(enrich_records[i]) \in DOMAIN address_cache =>
                    AddressOf(enrich_records[i])
                        = address_cache[RecordKey(enrich_records[i])]

\* a call that met a coordinate resolved by an earlier call, next to a
\* coordinate it had to geocode
C13_Witness ==
    /\ epc = "enriched"
    /\ geocode_calls # <<>>
    /\ \E i \in Located :
          /\ RecordKey(enrich_records[i]) \in DOMAIN cache_before
          /\ RecordKey(enrich_records[i]) \notin Range(geocode_calls)
          /\ AddressOf(enrich_records[i])
                = cache_before[RecordKey(enrich_records[i])]

FailedKeys == {k \in Range(geocode_calls) : k \notin DOMAIN address_cache}

\* C15: when the geocoding request for a coordinate fails, the call returns
\* without raising, the records at that coordinate get the location name of
\* their place ('Unknown Location' without one), the records at a resolved
\* coordinate get its address and every other field of every record is as
\* it was handed in
C15_FailureDegradesOnePlace ==
    (epc \in {"enriched", "raised"} /\ FailedKeys # {}) =>
        /\ epc = "enriched"
        /\ \A i \in Located :
              LET record == enrich_records[i]
              IN  /\ RecordKey(record) \in FailedKeys =>
                        AddressOf(record) =
                            IF "location" \in DOMAIN record.p
                            THEN record.p.location ELSE "Unknown Location"
                  /\ RecordKey(record) \in Range(geocode_calls) \ FailedKeys =>
                        /\ AddressOf(record) = address_cache[RecordKey(record)]
                        /\ AddressOf(record) \in
                              {"Stephansplatz 1, 1010 Wien", "Domgasse 2, 1010 Wien"}
        /\ \A i \in 1..Len(enrich_records) :
              /\ DOMAIN enrich_records[i] \ {"precise_address"} \subseteq {"p"}
              /\ enrich_records[i].p \in {r.p : r \in EnrichRecordSet}

\* a call in which one request failed and another one resolved its coordinate
C15_Witness ==
    /\ epc = "enriched"
    /\ FailedKeys # {}
    /\ Range(geocode_calls) \ FailedKeys # {}
    /\ \E i \in Located : \E j \in Located :
          /\ RecordKey(enrich_records[i]) \in FailedKeys
          /\ AddressOf(enrich_records[i]) = enrich_records[i].p.location
          /\ RecordKey(enrich_records[j]) \in Range(geocode_calls) \ FailedKeys
          /\ AddressOf(enrich_records[j])
                = address_cache[RecordKey(enrich_records[j])]

\* C16: the aggregated context is a bounded summary of its inputs.  The
\* citylayers entry holds the first 50 place records at most, in input order,
\* and counts all of them; an enabled transport entry holds the first 30
\* stations at most; an enabled vegetation entry holds the number of trees,
\* the number of distinct species and at most 10 species with their
\* frequencies, none rising from one to the next and none lower than that of
\* a species left out.
C16_BoundedSummary ==
    apc = "aggregated" =>
       LET given(s) == /\ s \in agg_sources
                       /\ s \in DOMAIN agg_external
                       /\ Len(agg_external[s]) > 0
           Leading(data, list, cap) ==
               /\ Len(data) = IF Len(list) > cap THEN cap ELSE Len(list)
               /\ \A i \in 1..Len(data) : data[i] = list[i]
           trees == agg_external["vegetation"]
           name(i) == IF "species" \in DOMAIN trees[i] THEN trees[i].species
                      ELSE "Unknown"
           names == {name(i) : i \in 1..Len(trees)}
           freq(sp) == Cardinality({i \in 1..Len(trees) : name(i) = sp})
           summary == agg_result["vegetation"].data.summary
           top == summary.top_species
       IN  /\ agg_result["citylayers"].count = Len(agg_citylayers)
           /\ Leading(agg_result["citylayers"].data, agg_citylayers, 50)
           /\ IF given("transport")
              THEN /\ agg_result["transport"].count = Len(agg_external["transport"])
                   /\ Leading(agg_result["transport"].data,
                              agg_external["transport"], 30)
              ELSE agg_result["transport"].data = <<>>
           /\ given("vegetation") =>
                 /\ agg_result["vegetation"].count = Len(trees)
                 /\ summary.total_trees = Len(trees)
                 /\ summary.species_diversity = Cardinality(names)
                 /\ Len(top) <= 10
                 /\ Len(top) = 10 \/ Len(top) = Cardinality(names)
                 /\ \A k \in 1..Len(top) :
                       /\ top[k][1] \in names
                       /\ top[k][2] = freq(top[k][1])
                       /\ \A l \in (k + 1)..Len(top) :
                             top[k][2] >= top[l][2] /\ top[k][1] # top[l][1]
                       /\ \A sp \in names \ {top[l][1] : l \in 1..Len(top)} :
                             freq(sp) <= top[k][2]

C16_Witness ==
    /\ apc = "aggregated"
    /\ Len(agg_citylayers) = 51
    /\ agg_result["transport"].count = 31
    /\ agg_result["vegetation"].count = 45
    /\ agg_result["vegetation"].data.summary.species_diversity = 12
    /\ Len(agg_result["vegetation"].data.summary.top_species) = 10
    /\ agg_result["vegetation"].data.summary.top_species[1][2] >
          agg_result["vegetation"].data.summary.top_species[10][2]

\* C17: a chat request is rejected with "No data available from selected
\* sources" only when no enabled source delivered data: neither rows from the
\* graph nor a non-empty weather, transport or vegetation list of the payload.
C17_NoDataOnlyWithoutData ==
    ("error" \in DOMAIN response
        /\ response.error = "No data available from selected sources") =>
       \A s \in data_sources : aggregated_context[s].count = 0

\* C18: an answer of the model that says "don't know" never reaches the
\* caller of a chat request, whichever call wrote the answer, the first one or
\* the multi-source one: the answer returned is the table rendered from the
\* rows the request already holds.
C18_DontKnowFallsBack ==
    ("ok" \in DOMAIN response /\ response.ok) =>
       /\ "dont_know" \in DOMAIN response.answer.text =>
             ~response.answer.text.dont_know
       /\ (CleanAnswer(model_answer).dont_know
              /\ response.answer.text.kind # "multi") =>
             response.answer.text = format_results(result.context_records)

\* C19: a chat request changes the history and the last result set of its
\* session only together and only at its end.  Until the response is written
\* both are as the request found them; a failed request leaves both so; a
\* successful one has appended one pair to the history and stored its own
\* records as the last result set.
C19_StoreChangesTogether ==
    /\ response = None =>
          chat_history = 0 /\ last_context_records = NoContext
    /\ ("ok" \in DOMAIN response /\ ~response.ok) =>
          chat_history = 0 /\ last_context_records = NoContext
    /\ ("ok" \in DOMAIN response /\ response.ok) =>
          chat_history = 1 /\ last_context_records = response.context

\* C20: two chat requests served at the same time do not affect each other
\* through the history or the last result set, whether they belong to one
\* session or to two.  The history process is handed by a request is the one
\* the request found, and a successful request leaves the store with that
\* history extended by its own pair and with its own records as the last
\* result set; a rejected request leaves the history as it found it.  Stated
\* for runs in which no /clear is served.
C20_RequestsIsolated ==
    cleared.count = 0 =>
        \A r \in Requests :
           /\ spc[r] \in {"processed", "enriched", "stored", "done", "rejected"} =>
                 read_history[r] = found_history[r]
           /\ spc[r] = "rejected" =>
                 left_store[r].chat_history = found_history[r]
           /\ spc[r] = "done" =>
                 /\ left_store[r].chat_history = Append(found_history[r], Pair(r))
                 /\ left_store[r].last_context_records = Records(r)

\* C21: _flatten_neo4j_records keeps order and accumulates.  The places come
\* out in the order of their first rows, each with the properties of its
\* first row, and the category, comment, grade, sub-grade and image
\* collections of a place hold every such value of its rows, in row order and
\* as often as it occurs.  A place is the place of a row with an identifier
\* other than 0; a comment value is a comment or a list of comments.
C21_OrderedAccumulation ==
    fpc \in {"flat", "reflat"} =>
       LET placed == {i \in 1..Len(rows) :
                         /\ "p" \in DOMAIN rows[i]
                         /\ Truthy(rows[i].p)
                         /\ HasPlaceId(rows[i].p)}
           id(i) == rows[i].p.place_id
           firsts == {i \in placed : \A j \in placed : j < i => id(j) # id(i)}
           first(g) == CHOOSE i \in firsts :
                          Cardinality({j \in firsts : j < i}) = g - 1
           values(row, keys) ==
               LET joined[k \in 0..Len(keys)] ==
                       IF k = 0 THEN <<>>
                       ELSE joined[k - 1] \o NodesOf(row, keys[k])
               IN  joined[Len(keys)]
           held(i, keys) ==
               LET upto[k \in 0..Len(rows)] ==
                       IF k = 0 THEN <<>>
                       ELSE IF k \in placed /\ id(k) = id(i)
                            THEN upto[k - 1] \o values(rows[k], keys)
                            ELSE upto[k - 1]
               IN  upto[Len(rows)]
           list(record, key) == IF key \in DOMAIN record THEN record[key] ELSE <<>>
       IN  /\ Len(flat_records) = Cardinality(firsts)
           /\ \A g \in 1..Len(flat_records) :
                 LET i == first(g)
                     out == flat_records[g]
                 IN  /\ \A key \in DOMAIN rows[i].p :
                           /\ PKey(key) \in DOMAIN out
                           /\ out[PKey(key)] = rows[i].p[key]
                     /\ held(i, CategoryKeys) # <<>> =>
                           list(out, "categories_info") = held(i, CategoryKeys)
                     /\ list(out, "comments_info") = held(i, <<"co">>)
                     /\ list(out, "place_grades") = held(i, <<"pg">>)
                     /\ list(out, "place_subgrades") = held(i, <<"psg">>)
                     /\ list(out, "images") = held(i, <<"i">>)

\* C22: after an enrichment call with a geocoding token every record with a
\* place that has coordinates carries an address, whatever its position and
\* whatever the coordinates: the address resolved for its rounded coordinate
\* when there is one, otherwise the location name of its place.
C22_EveryRecordAddressed ==
    (epc = "enriched" /\ MAPBOX_ACCESS_TOKEN) =>
       \A i \in 1..Len(enrich_records) :
          LET record == enrich_records[i]
          IN  ("p" \in DOMAIN record
                  /\ {"latitude", "longitude"} \subseteq DOMAIN record.p) =>
                 /\ "precise_address" \in DOMAIN record
                 /\ record.precise_address =
                       IF RecordKey(record) \in DOMAIN address_cache
                       THEN address_cache[RecordKey(record)]
                       ELSE FallbackAddress(record)

\* kinds of the parts of a returned prompt, in order
PromptKinds == [i \in 1..Len(agent_result.parts) |-> agent_result.parts[i].kind]

FilterActive(f) == f \notin {"None", "", "all"}

HasFullBounds(m) ==
    /\ Truthy(m) /\ "bounds" \in DOMAIN m
    /\ {"north", "south", "east", "west"} \subseteq DOMAIN m["bounds"]

PromptReturned ==
    /\ agpc = "returned"
    /\ agent_call.method = "_get_map_bounds_prompt"
    /\ ~agent_result.raised

\* C23 as stated: the instruction block holds exactly one kind of
\* instruction, chosen by priority (the single-point instruction for a
\* clicked point, else the category join for an active category filter, else
\* the bounding-box instruction for map bounds), and the bounding-box
\* instruction never comes with either of the other two
C23_OneKindByPriority ==
    PromptReturned =>
        LET m == agent_call.map_context
            f == agent_call.category_filter
        IN  PromptKinds =
                IF IsSinglePoint(m) THEN <<"USER CLICKED ON A SPECIFIC POINT">>
                ELSE IF FilterActive(f) THEN <<"CATEGORY FILTER ACTIVE">>
                ELSE IF HasFullBounds(m) THEN <<"MAP BOUNDS PROVIDED">>
                ELSE <<"No specific map bounds or category filter provided">>

\* C23 amended: the block holds, in this order, the single-point instruction
\* exactly when a point with both coordinates was clicked, a category
\* instruction exactly when a category filter is set and not 'all' (a short
\* note next to the single-point instruction, the mandatory join otherwise),
\* and the bounding-box instruction exactly when all four bounds are given
\* and no point was clicked, also next to the category join; the
\* bounding-box instruction never comes with the single-point instruction
C23_KindsByCondition ==
    PromptReturned =>
        LET m == agent_call.map_context
            f == agent_call.category_filter
            point == IF IsSinglePoint(m)
                     THEN <<"USER CLICKED ON A SPECIFIC POINT">> ELSE <<>>
            category == IF ~FilterActive(f) THEN <<>>
                        ELSE IF IsSinglePoint(m)
                        THEN <<"Category filter active">>
                        ELSE <<"CATEGORY FILTER ACTIVE">>
            box == IF HasFullBounds(m) /\ ~IsSinglePoint(m)
                   THEN <<"MAP BOUNDS PROVIDED">> ELSE <<>>
            expected == point \o category \o box
        IN  /\ PromptKinds =
                  IF expected = <<>>
                  THEN <<"No specific map bounds or category filter provided">>
                  ELSE expected
            /\ ~({"MAP BOUNDS PROVIDED", "USER CLICKED ON A SPECIFIC POINT"}
                    \subseteq Range(PromptKinds))

\* a category filter and full bounds, no clicked point: both instructions
C23_Witness ==
    /\ PromptReturned
    /\ FilterActive(agent_call.category_filter)
    /\ HasFullBounds(agent_call.map_context)
    /\ ~IsSinglePoint(agent_call.map_context)
    /\ PromptKinds = <<"CATEGORY FILTER ACTIVE", "MAP BOUNDS PROVIDED">>

EnhanceReturned ==
    /\ agpc = "returned"
    /\ agent_call.method = "_enhance_query_with_history"

\* C25: the enhanced question holds the question and answer of at most the
\* last 2 turns of the history, oldest first, followed by the current
\* question; no older turn is in it; with an empty history it is the
\* question unchanged
C25_LastTwoTurns ==
    EnhanceReturned =>
        LET q == agent_call.query
            h == IF IsNone(agent_call.history) THEN <<>>
                 ELSE agent_call.history.list
            n == Len(h)
            line(i) == agent_result[i]
        IN  CASE n = 0 ->
                    agent_result = <<[label |-> "", text |-> q]>>
              [] n = 1 ->
                    /\ Len(agent_result) = 4
                    /\ line(1).text = h[1][1] /\ line(2).text = h[1][2]
                    /\ line(4) = [label |-> "Current question: ", text |-> q]
              [] OTHER ->
                    /\ Len(agent_result) = 6
                    /\ line(1) = [label |-> "Previous Q: ", text |-> h[n - 1][1]]
                    /\ line(2) = [label |-> "Previous A: ", text |-> h[n - 1][2]]
                    /\ line(3) = [label |-> "Previous Q: ", text |-> h[n][1]]
                    /\ line(4) = [label |-> "Previous A: ", text |-> h[n][2]]
                    /\ line(6) = [label |-> "Current question: ", text |-> q]

\* three turns with three different questions: the first one is left out
C25_Witness ==
    /\ EnhanceReturned
    /\ ~IsNone(agent_call.history)
    /\ Len(agent_call.history.list) = 3
    /\ agent_call.history.list[1][1] = "where is it quiet"
    /\ agent_call.history.list[2][1] = "show parks"
    /\ agent_call.history.list[3][1] = "and beauty"
    /\ \A i \in 1..Len(agent_result) : agent_result[i].text # "where is it quiet"
    /\ agent_result[1].text = "show parks"

NormalizeReturned ==
    /\ agpc = "returned"
    /\ agent_call.method = "normalize"

\* C26: a text given as a plain string, as a mapping whose 'text' entry it
\* is, or as a list with one block whose 'text' entry it is, is normalised to
\* the same string; that string holds no code-fence marker, and for a query
\* text, fenced or not, it is the bare text
C26_SameQueryInEveryEnvelope ==
    (NormalizeReturned /\ agent_call.envelope \in {"str", "dict", "list"}) =>
        LET q == IF agent_call.fenced THEN Fenced(agent_call.text)
                 ELSE agent_call.text
        IN  /\ \A e \in {"str", "dict", "list"} :
                  agent_result = NormalizeGeneratedCypher(Envelope(e, q))
            /\ ~Contains(agent_result, W_fence)
            /\ agent_call.text \in QueryTexts =>
                  agent_result = Strip(agent_call.text)

\* a fenced query in a mapping comes out bare
C26_Witness ==
    /\ NormalizeReturned
    /\ agent_call.envelope = "dict"
    /\ agent_call.fenced
    /\ agent_call.text # <<>>
    /\ agent_call.text \in SafeTexts
    /\ agent_result = agent_call.text

\* the name of a category record: its 'name', or its 'type', the
\* human-readable name of a category
CategoryRecordName(c) ==
    IF "name" \in DOMAIN c THEN <<c.name>>
    ELSE IF "type" \in DOMAIN c THEN <<c.type>>
    ELSE <<>>

\* C27: the table has one row for each of the first 10 records that carry a
\* place, with the place's location and, as category, the name of the joined
\* category record when there is one, else the place's own category
\* attribute, else 'N/A'; an empty list gives the text 'No results found'
\* (stated for lists in which no place is null)
C27_FallbackTable ==
    (/\ agpc = "returned" /\ agent_call.method = "_format_results"
     /\ \A i \in 1..Len(agent_call.context) :
            "p" \in DOMAIN agent_call.context[i] =>
                ~IsNone(agent_call.context[i].p)) =>
        LET context == agent_call.context
            preview == FirstN(context, PreviewCount)
            placed == {i \in 1..Len(preview) :
                          "p" \in DOMAIN preview[i] /\ ~IsNone(preview[i].p)}
            row_of(i) == {k \in 1..Len(agent_result.table) :
                             agent_result.table[k].number = i}
        IN  IF context = <<>>
            THEN agent_result = [kind |-> "text", text |-> "**No results found.**"]
            ELSE /\ agent_result.kind = "table"
                 /\ Len(agent_result.table) = Cardinality(placed)
                 /\ \A i \in placed : \E k \in row_of(i) :
                      LET record == preview[i]
                          shown == agent_result.table[k]
                          joined == "c" \in DOMAIN record /\ Truthy(record.c)
                      IN  /\ "location" \in DOMAIN record.p =>
                                shown.location = record.p.location
                          /\ (joined /\ CategoryRecordName(record.c) # <<>>) =>
                                <<shown.category>> = CategoryRecordName(record.c)
                          /\ ~joined =>
                                shown.category =
                                    IF "category" \in DOMAIN record.p
                                    THEN record.p.category ELSE "N/A"

\* C28: every query text passed to graph.query, the text of the widening
\* re-run included, is passed after validation has succeeded and is a text
\* that _validate_cypher_query accepts
C28_ExecutedTextsValidated ==
    \A i \in 1..Len(graph_calls) :
        /\ validation = "passed"
        /\ validate_cypher_query(graph_calls[i].query) = 0

\* C29: once a /clear has been served, the history of the session holds no
\* pair of a chat request that had completed before it, whatever the
\* interleaving, also when a chat request of the session was in flight during
\* the /clear and completes after it
C29_ClearedPairsStayGone ==
    \A s \in DOMAIN SESSIONS :
        \A pair \in Range(SESSIONS[s].chat_history) : <<s, pair>> \notin cleared.pairs

\* C30: in a session served one request at a time the address cache holds,
\* for every rounded coordinate that has had a successful geocoding call, the
\* address of the first such call, and nothing else: a failed lookup makes no
\* entry, and no later chat request and no /clear removes or replaces one
C30_CacheKeepsFirstAddress ==
    (epc \in {"ready", "pending", "enriched", "raised"}) =>
        /\ DOMAIN address_cache = DOMAIN first_geocoded
        /\ \A k \in DOMAIN address_cache : address_cache[k] = first_geocoded[k]
        /\ \A k \in DOMAIN cache_before :
              k \in DOMAIN address_cache /\ address_cache[k] = cache_before[k]

\* an entry made by an earlier request is still there after a later request
\* for the same coordinate, whose batch added a second entry
C30_Witness ==
    /\ epc = "enriched"
    /\ Cardinality(DOMAIN address_cache) = 2
    /\ Cardinality(DOMAIN cache_before) = 1
    /\ \E i \in 1..Len(enrich_records) :
          /\ HasCoordinates(enrich_records[i])
          /\ RecordKey(enrich_records[i]) \in DOMAIN cache_before
    /\ geocode_calls # <<>>

====
